---- MODULE Spec2Model ----
(***************************************************************************)
(* Account-security core of src/api/core/accounts.rs: key rotation         *)
(* (validate_keydata, post_rotatekey), the device authorization protocol   *)
(* (post_auth_request, put_auth_request, get_auth_request_response,        *)
(* get_auth_requests, purge_auth_requests), the KDF change (post_kdf) and   *)
(* the other credential handlers (register, post_password, post_sstamp,    *)
(* password_hint).                                                         *)
(*                                                                         *)
(* Option<T> is modelled as a tuple: None is <<>>, Some(x) is <<x>>.       *)
(* The store holds the records of one account, the user "u1"; records of   *)
(* other accounts appear only where a handler can tell them apart.         *)
(* Request-scoped data (the request, its response, what it wrote and sent) *)
(* lives in `last` and is dropped when the response has been returned.     *)
(***************************************************************************)
EXTENDS Integers, Sequences, FiniteSets, TLC

VARIABLES
    user,              \* the stored User record of the account
    folders,           \* FolderId -> Option<name>            (Folder::find_by_user)
    emergency_access,  \* EmergencyAccessId -> Option<key_encrypted>  (by grantor)
    memberships,       \* OrganizationId -> Option<[reset_password_key: Option]>
    sends,             \* SendId -> Option<data>              (Send::find_by_user)
    ciphers,           \* CipherId -> Option<[organization_uuid, data]>
    devices,           \* the uuids of the user's stored Device records
    invitations,       \* the emails with a pending Invitation
    invited_memberships, \* OrganizationIds where the user's membership is Invited
    auth_requests,     \* AuthRequestId -> Option<AuthRequest>
    next_auth_id,      \* number of auth requests created so far
    now,               \* Utc::now(), in ticks
    responded,         \* history: AuthRequestId -> Option<first successful response>
    responders,        \* the Respond requests in flight, each at its await point
    sessions,          \* SessionId -> Option<the user loaded at authentication>
    last               \* the request being answered, or Idle

account_vars == <<user, folders, emergency_access, memberships, sends, ciphers, devices,
                  invitations, invited_memberships>>

auth_vars == <<auth_requests, next_auth_id, now, responded>>

race_vars == <<responders, sessions>>

vars == <<account_vars, auth_vars, race_vars, last>>

---------------------------------------------------------------------------
(* Bounds of the model                                                     *)

\* Total number of entries in the lists of one rotation payload.
MaxEntries == 2
\* Number of security stamps issued after the initial one.
MaxStamp == 1
\* Number of auth requests ever created.
MaxAuthRequests == 1
\* Number of clock ticks.
MaxTime == 2

---------------------------------------------------------------------------
(* Values                                                                  *)

None == <<>>
Some(x) == <<x>>
IsSome(o) == o # None
Unwrap(o) == o[1]

Ok == "Ok"
Idle == [op |-> "idle"]

\* The Respond requests that can be in flight at once.
Responders == {"r1", "r2"}

FolderIds == {1}
EmergencyAccessIds == {1}
OrganizationIds == {1}
SendIds == {1}
CipherIds == {1}

\* Opaque ciphertexts: B0 is what the store holds initially, B1 what a
\* rotation payload carries (re-encrypted under the new user key).
B0 == "b0"
B1 == "b1"

Devices == {"d1", "d2"}
Emails == {"a@x", "b@x"}
PublicKeys == {"pk1", "pk2"}
MasterHashes == {"mh0", "mh1"}

\* UserKdfType as i32
Pbkdf2 == 0
Argon2id == 1

\* The KDF settings a stored user can have (both self-consistent shapes).
StoredKdfs ==
    { [client_kdf_type |-> Pbkdf2, client_kdf_iter |-> 600000,
       client_kdf_memory |-> None, client_kdf_parallelism |-> None],
      [client_kdf_type |-> Argon2id, client_kdf_iter |-> 3,
       client_kdf_memory |-> Some(64), client_kdf_parallelism |-> Some(4)] }

\* Values a rotation payload may declare for each KDF field.
PayloadKdfTypes == {Pbkdf2, Argon2id}
PayloadKdfIters == {3, 600000}
PayloadKdfMemory == {None, Some(64)}
PayloadKdfParallelism == {None, Some(4)}

---------------------------------------------------------------------------
(* User (db model, used through its methods)                               *)

\* crypto::hash_password: the stored hash is a salted digest of the client's
\* master-password hash, never the client's value itself.
hash_password(h) == <<"pbkdf2", h>>

check_valid_password(u, h) == u.password_hash = hash_password(h)

reset_security_stamp(u) == [u EXCEPT !.security_stamp = @ + 1]

set_stamp_exception(u, routes) == [u EXCEPT !.stamp_exception = Some(routes)]

set_password(u, password, new_key, reset_stamp, allow_next_route) ==
    LET u1 == [u EXCEPT !.password_hash = hash_password(password)]
        u2 == IF IsSome(allow_next_route)
                 THEN set_stamp_exception(u1, Unwrap(allow_next_route)) ELSE u1
        u3 == IF IsSome(new_key) THEN [u2 EXCEPT !.akey = Unwrap(new_key)] ELSE u2
    IN  IF reset_stamp THEN reset_security_stamp(u3) ELSE u3

---------------------------------------------------------------------------
(* Store views used by key rotation                                        *)

Range(s) == {s[i] : i \in DOMAIN s}

\* The ids f maps to a present record.
Present(f) == {i \in DOMAIN f : IsSome(f[i])}

\* Cipher::find_owned_by_user: the user's personal ciphers; ciphers that
\* belong to an organization are not among them.
find_owned_by_user(cs) ==
    {i \in Present(cs) : Unwrap(cs[i]).organization_uuid = None}

\* Membership::find_by_user followed by
\* retain(|m| m.reset_password_key.is_some()).
retain_reset_password_key(ms) ==
    {o \in Present(ms) : IsSome(Unwrap(ms[o]).reset_password_key)}

\* Errors of validate_keydata and post_rotatekey
ErrInvalidPassword == "Invalid password"
ErrKdfOrEmail == "Changing the kdf variant or email is not supported during key rotation"
ErrKeypair == "Changing the asymmetric keypair is not possible during key rotation"
ErrAllCiphers == "All existing ciphers must be included in the rotation"
ErrAllFolders == "All existing folders must be included in the rotation"
ErrAllEmergencyAccess == "All existing emergency access keys must be included in the rotation"
ErrAllResetPassword == "All existing reset password keys must be included in the rotation"
ErrAllSends == "All existing sends must be included in the rotation"
ErrNoFolder == "Folder doesn't exist"
ErrNoEmergencyAccess == "Emergency access doesn't exist or is not owned by the user"
ErrNoResetPassword == "Reset password doesn't exist"
ErrNoSend == "Send doesn't exist"
ErrNoCipher == "Cipher doesn't exist"
\* A store write that returns Err (propagated by `?`, or as save_result).
ErrDb == "Error saving to the store"
\* Option::unwrap() on None: the handler is aborted, no response is built.
Panic == "panicked: called Option::unwrap() on a None value"

---------------------------------------------------------------------------
(* validate_keydata                                                        *)

\* Variant: the organization-id filter is left out.
provided_cipher_ids_unfiltered(data) ==
    {Unwrap(c.id) : c \in {c \in Range(data.account_data.ciphers) : IsSome(c.id)}}

\* .filter(|c| c.organization_id.is_none()).filter_map(|c| c.id.as_ref())
provided_cipher_ids(data) ==
    {Unwrap(c.id) : c \in {c \in Range(data.account_data.ciphers) :
                              c.organization_id = None /\ IsSome(c.id)}}

\* .filter_map(|f| f.id.as_ref())
provided_folder_ids(data) ==
    {Unwrap(f.id) : f \in {f \in Range(data.account_data.folders) : IsSome(f.id)}}

provided_emergency_access_ids(data) ==
    {ea.id : ea \in Range(data.account_unlock_data.emergency_access_unlock_data)}

provided_reset_password_ids(data) ==
    {rp.organization_id :
        rp \in Range(data.account_unlock_data.organization_account_recovery_unlock_data)}

provided_send_ids(data) ==
    {Unwrap(s.id) : s \in {s \in Range(data.account_data.sends) : IsSome(s.id)}}

\* Variant: the subset test the other way round.
is_subset(a, b) == a \subseteq b

\* HashSet::is_superset
is_superset(a, b) == b \subseteq a

\* Variant: the parallelism comparison is left out.
kdf_or_email_changed_without_parallelism(u, mp) ==
    \/ u.client_kdf_type # mp.kdf_type
    \/ u.client_kdf_iter # mp.kdf_iterations
    \/ u.client_kdf_memory # mp.kdf_memory
    \/ u.email # mp.email

\* The first condition of validate_keydata.
kdf_or_email_changed(u, mp) ==
    \/ u.client_kdf_type # mp.kdf_type
    \/ u.client_kdf_iter # mp.kdf_iterations
    \/ u.client_kdf_memory # mp.kdf_memory
    \/ u.client_kdf_parallelism # mp.kdf_parallelism
    \/ u.email # mp.email

validate_keydata(data, existing_ciphers, existing_folders, existing_emergency_access, existing_memberships, existing_sends, u) ==
    LET mp == data.account_unlock_data.master_password_unlock_data IN
    IF kdf_or_email_changed(u, mp)
        THEN ErrKdfOrEmail
    ELSE IF u.public_key # Some(data.account_keys.account_public_key)
        THEN ErrKeypair
    ELSE IF ~is_superset(provided_cipher_ids(data), existing_ciphers)
        THEN ErrAllCiphers
    ELSE IF ~is_superset(provided_folder_ids(data), existing_folders)
        THEN ErrAllFolders
    ELSE IF ~is_superset(provided_emergency_access_ids(data), existing_emergency_access)
        THEN ErrAllEmergencyAccess
    ELSE IF ~is_superset(provided_reset_password_ids(data), existing_memberships)
        THEN ErrAllResetPassword
    ELSE IF ~is_superset(provided_send_ids(data), existing_sends)
        THEN ErrAllSends
    ELSE Ok

---------------------------------------------------------------------------
(* post_rotatekey: the apply phase                                         *)
(*                                                                         *)
(* The handler's progress is a record st: the store as written so far, the *)
(* number n of store writes attempted, the index failAt of the write the   *)
(* store refuses (0: none), the error that ended the handler (Ok while it  *)
(* is still running), the writes committed and the notifications sent.     *)

\* UpdateType::None suppresses the realtime notification of a write.
UpdateTypeNone == "None"

\* <record>.save(&mut conn): the n-th write of the request; it commits
\* unless the store refuses it.
save(st, family, id, value) ==
    IF st.n + 1 = st.failAt
        THEN [st EXCEPT !.n = @ + 1, !.err = ErrDb]
        ELSE [st EXCEPT !.n = @ + 1,
                        ![family] = [@ EXCEPT ![id] = value],
                        !.writes = Append(@, [family |-> family, id |-> id])]

\* Notify::send_*_update: nothing is sent for UpdateType::None.
send_update(st, kind, id, ut) ==
    IF ut = UpdateTypeNone THEN st
    ELSE [st EXCEPT !.notes = Append(@, [type |-> kind, id |-> id, ut |-> ut])]

\* sends::update_send_from_data(send, data, .., ut): stores the payload's
\* data in the send, then notifies unless ut is None.
update_send_from_data(st, id, send_data, ut) ==
    LET s1 == save(st, "sends", id, Some(send_data.data))
    IN  IF s1.err # Ok THEN s1 ELSE send_update(s1, "send", id, ut)

\* ciphers::update_cipher_from_data(cipher, data, .., ut): stores the
\* payload's data in the cipher, then notifies unless ut is None.
update_cipher_from_data(st, id, cipher_data, ut) ==
    LET s1 == save(st, "ciphers", id,
                   Some([Unwrap(st.ciphers[id]) EXCEPT !.data = cipher_data.data]))
    IN  IF s1.err # Ok THEN s1 ELSE send_update(s1, "cipher", id, ut)

\* One iteration of `for folder_data in data.account_data.folders`.
update_folder(st, existing_folders, folder_data) ==
    IF folder_data.id = None THEN st       \* skip `null` folder id entries
    ELSE IF Unwrap(folder_data.id) \notin existing_folders
        THEN [st EXCEPT !.err = ErrNoFolder]
    ELSE save(st, "folders", Unwrap(folder_data.id), Some(folder_data.name))

\* One iteration of `for emergency_access_data in ..emergency_access_unlock_data`.
update_emergency_access(st, existing_emergency_access, emergency_access_data) ==
    IF emergency_access_data.id \notin existing_emergency_access
        THEN [st EXCEPT !.err = ErrNoEmergencyAccess]
    ELSE save(st, "emergency_access", emergency_access_data.id,
              Some(emergency_access_data.key_encrypted))

\* Variant: an organization without a reset-password key is skipped.
update_reset_password_skip_unknown(st, existing_memberships, reset_password_data) ==
    IF reset_password_data.organization_id \notin existing_memberships THEN st
    ELSE save(st, "memberships", reset_password_data.organization_id,
              Some([Unwrap(st.memberships[reset_password_data.organization_id])
                        EXCEPT !.reset_password_key =
                                   Some(reset_password_data.reset_password_key)]))

\* One iteration of `for reset_password_data in ..organization_account_recovery_unlock_data`.
update_reset_password(st, existing_memberships, reset_password_data) ==
    IF reset_password_data.organization_id \notin existing_memberships
        THEN [st EXCEPT !.err = ErrNoResetPassword]
    ELSE save(st, "memberships", reset_password_data.organization_id,
              Some([Unwrap(st.memberships[reset_password_data.organization_id])
                        EXCEPT !.reset_password_key =
                                   Some(reset_password_data.reset_password_key)]))

\* existing.iter_mut().find(|x| &x.uuid == id.as_ref().unwrap()): the closure
\* runs on the first existing record, so an absent id panics there; with no
\* existing record it never runs and find returns None.
find_unwrap(existing, id) ==
    IF existing = {} THEN "none"
    ELSE IF id = None THEN "panic"
    ELSE IF Unwrap(id) \in existing THEN "found" ELSE "none"

\* One iteration of `for send_data in data.account_data.sends`.
update_send(st, existing_sends, send_data) ==
    LET found == find_unwrap(existing_sends, send_data.id) IN
    IF found = "panic" THEN [st EXCEPT !.err = Panic]
    ELSE IF found = "none" THEN [st EXCEPT !.err = ErrNoSend]
    ELSE update_send_from_data(st, Unwrap(send_data.id), send_data, UpdateTypeNone)

\* Variant: the cipher is updated as an ordinary edit is, with a realtime
\* notification of the update.
update_cipher_notifies(st, existing_ciphers, cipher_data) ==
    IF cipher_data.organization_id # None THEN st
    ELSE LET found == find_unwrap(existing_ciphers, cipher_data.id) IN
         IF found = "panic" THEN [st EXCEPT !.err = Panic]
         ELSE IF found = "none" THEN [st EXCEPT !.err = ErrNoCipher]
         ELSE update_cipher_from_data(st, Unwrap(cipher_data.id), cipher_data,
                                      "SyncCipherUpdate")

\* One iteration of `for cipher_data in data.account_data.ciphers`.
update_cipher(st, existing_ciphers, cipher_data) ==
    IF cipher_data.organization_id # None THEN st
    ELSE LET found == find_unwrap(existing_ciphers, cipher_data.id) IN
         IF found = "panic" THEN [st EXCEPT !.err = Panic]
         ELSE IF found = "none" THEN [st EXCEPT !.err = ErrNoCipher]
         ELSE update_cipher_from_data(st, Unwrap(cipher_data.id), cipher_data,
                                      UpdateTypeNone)

\* for folder_data in data.account_data.folders { .. }
RECURSIVE update_folders(_, _, _)
update_folders(st, existing_folders, items) ==
    IF items = <<>> \/ st.err # Ok THEN st
    ELSE update_folders(update_folder(st, existing_folders, Head(items)),
                        existing_folders, Tail(items))

\* for emergency_access_data in ..emergency_access_unlock_data { .. }
RECURSIVE update_emergency_accesses(_, _, _)
update_emergency_accesses(st, existing_emergency_access, items) ==
    IF items = <<>> \/ st.err # Ok THEN st
    ELSE update_emergency_accesses(
             update_emergency_access(st, existing_emergency_access, Head(items)),
             existing_emergency_access, Tail(items))

\* for reset_password_data in ..organization_account_recovery_unlock_data { .. }
RECURSIVE update_reset_passwords(_, _, _)
update_reset_passwords(st, existing_memberships, items) ==
    IF items = <<>> \/ st.err # Ok THEN st
    ELSE update_reset_passwords(
             update_reset_password(st, existing_memberships, Head(items)),
             existing_memberships, Tail(items))

\* for send_data in data.account_data.sends { .. }
RECURSIVE update_sends(_, _, _)
update_sends(st, existing_sends, items) ==
    IF items = <<>> \/ st.err # Ok THEN st
    ELSE update_sends(update_send(st, existing_sends, Head(items)),
                      existing_sends, Tail(items))

\* for cipher_data in data.account_data.ciphers { .. }
RECURSIVE update_ciphers(_, _, _)
update_ciphers(st, existing_ciphers, items) ==
    IF items = <<>> \/ st.err # Ok THEN st
    ELSE update_ciphers(update_cipher(st, existing_ciphers, Head(items)),
                        existing_ciphers, Tail(items))

\* Variant: the ciphers are updated before the sends.
apply_updates_ciphers_before_sends(st, data, existing_ciphers, existing_folders, existing_emergency_access, existing_memberships, existing_sends) ==
    LET s1 == update_folders(st, existing_folders, data.account_data.folders)
        s2 == update_emergency_accesses(s1, existing_emergency_access,
                  data.account_unlock_data.emergency_access_unlock_data)
        s3 == update_reset_passwords(s2, existing_memberships,
                  data.account_unlock_data.organization_account_recovery_unlock_data)
        s4 == update_ciphers(s3, existing_ciphers, data.account_data.ciphers)
    IN  update_sends(s4, existing_sends, data.account_data.sends)

\* The five update loops in the order the handler runs them.
apply_updates(st, data, existing_ciphers, existing_folders, existing_emergency_access, existing_memberships, existing_sends) ==
    LET s1 == update_folders(st, existing_folders, data.account_data.folders)
        s2 == update_emergency_accesses(s1, existing_emergency_access,
                  data.account_unlock_data.emergency_access_unlock_data)
        s3 == update_reset_passwords(s2, existing_memberships,
                  data.account_unlock_data.organization_account_recovery_unlock_data)
        s4 == update_sends(s3, existing_sends, data.account_data.sends)
    IN  update_ciphers(s4, existing_ciphers, data.account_data.ciphers)

\* user.save(&mut conn): one more store write; save_result is its outcome.
save_user(st, u) ==
    LET s1 == [st EXCEPT !.steps = Append(@, [step |-> "user.save", to |-> {}])] IN
    IF st.n + 1 = st.failAt
        THEN [s1 EXCEPT !.n = @ + 1, !.err = ErrDb]
        ELSE [s1 EXCEPT !.n = @ + 1, !.user = u,
                        !.writes = Append(@, [family |-> "user", id |-> u.uuid])]

\* The devices a logout of the user reaches: all the stored ones but the
\* excluded one.
logout_recipients(devs, exclude) == {d \in devs : Some(d) # exclude}

\* nt.send_logout(&user, Some(device), ..): every device of the user but the
\* excluded one is told to log out.
send_logout(st, u, exclude) ==
    [st EXCEPT !.notes = Append(@, [type |-> "logout", id |-> u.uuid, ut |-> exclude]),
               !.steps = Append(@, [step |-> "send_logout",
                                    to |-> logout_recipients(st.devices, exclude)])]

\* Variant: the logout is broadcast to every device, as post_sstamp does.
update_user_logout_all(st, data, headers) ==
    LET mp == data.account_unlock_data.master_password_unlock_data
        u0 == [headers.user EXCEPT !.private_key =
                   Some(data.account_keys.user_key_encrypted_account_private_key)]
        u1 == set_password(u0, mp.master_key_authentication_hash,
                           Some(mp.master_key_encrypted_user_key), TRUE, None)
    IN  send_logout(save_user(st, u1), u1, None)

\* Variant: the Argon2 parameters are cleared, as post_kdf does for PBKDF2.
update_user_clears_argon2(st, data, headers) ==
    LET mp == data.account_unlock_data.master_password_unlock_data
        u0 == [headers.user EXCEPT !.private_key =
                   Some(data.account_keys.user_key_encrypted_account_private_key),
                                   !.client_kdf_memory = None,
                                   !.client_kdf_parallelism = None]
        u1 == set_password(u0, mp.master_key_authentication_hash,
                           Some(mp.master_key_encrypted_user_key), TRUE, None)
    IN  send_logout(save_user(st, u1), u1, Some(headers.device))

\* "Update user data" to the end of post_rotatekey.
update_user(st, data, headers) ==
    LET mp == data.account_unlock_data.master_password_unlock_data
        u0 == [headers.user EXCEPT !.private_key =
                   Some(data.account_keys.user_key_encrypted_account_private_key)]
        u1 == set_password(u0, mp.master_key_authentication_hash,
                           Some(mp.master_key_encrypted_user_key), TRUE, None)
    IN  send_logout(save_user(st, u1), u1, Some(headers.device))

\* The handler's progress before anything has happened, on the store db.
start(db, failAt) ==
    [user |-> db.user, folders |-> db.folders,
     emergency_access |-> db.emergency_access, memberships |-> db.memberships,
     sends |-> db.sends, ciphers |-> db.ciphers,
     devices |-> db.devices,
     invitations |-> db.invitations, invited_memberships |-> db.invited_memberships,
     n |-> 0, failAt |-> failAt, err |-> Ok, writes |-> <<>>, notes |-> <<>>,
     steps |-> <<>>, events |-> <<>>]

\* Variant: the updates are applied before the payload is validated.
post_rotatekey_validates_late(data, headers, db, failAt) ==
    LET st == start(db, failAt) IN
    IF ~check_valid_password(headers.user, data.old_master_key_authentication_hash)
        THEN [st EXCEPT !.err = ErrInvalidPassword]
    ELSE
    LET existing_ciphers == find_owned_by_user(db.ciphers)
        existing_folders == Present(db.folders)
        existing_emergency_access == Present(db.emergency_access)
        existing_memberships == retain_reset_password_key(db.memberships)
        existing_sends == Present(db.sends)
        s5 == apply_updates(st, data, existing_ciphers, existing_folders,
                            existing_emergency_access, existing_memberships,
                            existing_sends)
        valid == validate_keydata(data, existing_ciphers, existing_folders,
                                  existing_emergency_access, existing_memberships,
                                  existing_sends, headers.user)
    IN  IF valid # Ok THEN [s5 EXCEPT !.err = valid]
        ELSE IF s5.err # Ok THEN s5 ELSE update_user(s5, data, headers)

post_rotatekey(data, headers, db, failAt) ==
    LET st == start(db, failAt) IN
    IF ~check_valid_password(headers.user, data.old_master_key_authentication_hash)
        THEN [st EXCEPT !.err = ErrInvalidPassword]
    ELSE
    LET existing_ciphers == find_owned_by_user(db.ciphers)
        existing_folders == Present(db.folders)
        existing_emergency_access == Present(db.emergency_access)
        existing_memberships == retain_reset_password_key(db.memberships)
        existing_sends == Present(db.sends)
        valid == validate_keydata(data, existing_ciphers, existing_folders,
                                  existing_emergency_access, existing_memberships,
                                  existing_sends, headers.user)
    IN  IF valid # Ok THEN [st EXCEPT !.err = valid]
        ELSE LET s5 == apply_updates(st, data, existing_ciphers, existing_folders,
                                     existing_emergency_access, existing_memberships,
                                     existing_sends)
             IN  IF s5.err # Ok THEN s5 ELSE update_user(s5, data, headers)

---------------------------------------------------------------------------
(* Requests: the inputs the handlers are run on                            *)

Option(S) == {None} \cup {Some(x) : x \in S}

SeqsUpTo(S, n) == UNION {[1..k -> S] : k \in 0..n}

UpdateFolderData == [id : Option(FolderIds), name : {B1}]
UpdateEmergencyAccessData == [id : EmergencyAccessIds, key_encrypted : {B1}]
UpdateResetPasswordData == [organization_id : OrganizationIds, reset_password_key : {B1}]
SendData == [id : Option(SendIds), data : {B1}]
CipherData == [id : Option(CipherIds), organization_id : Option({1}), data : {B1}]

MasterPasswordUnlockData ==
    [kdf_type : PayloadKdfTypes, kdf_iterations : PayloadKdfIters,
     kdf_parallelism : PayloadKdfParallelism, kdf_memory : PayloadKdfMemory,
     email : Emails, master_key_authentication_hash : {"mh1"},
     master_key_encrypted_user_key : {B1}]

KeyData(old, mp, pk, ciphs, folds, snds, eas, rps) ==
    [account_unlock_data |->
        [emergency_access_unlock_data |-> eas,
         master_password_unlock_data |-> mp,
         organization_account_recovery_unlock_data |-> rps],
     account_keys |->
        [user_key_encrypted_account_private_key |-> B1, account_public_key |-> pk],
     account_data |-> [ciphers |-> ciphs, folders |-> folds, sends |-> snds],
     old_master_key_authentication_hash |-> old]

\* The stored records as one value.
Db == [user |-> user, folders |-> folders, emergency_access |-> emergency_access,
       memberships |-> memberships, sends |-> sends, ciphers |-> ciphers,
       devices |-> devices,
       invitations |-> invitations, invited_memberships |-> invited_memberships]

---------------------------------------------------------------------------
(* Key rotation as a state machine                                         *)

\* The user record of the account "u1" with the given KDF settings and
\* public key, before any password change.
RegisteredUser(kdf, pk) ==
    [uuid |-> "u1", email |-> "a@x",
     password_hash |-> hash_password("mh0"), akey |-> B0,
     private_key |-> IF pk = None THEN None ELSE Some(B0),
     public_key |-> pk,
     client_kdf_type |-> kdf.client_kdf_type,
     client_kdf_iter |-> kdf.client_kdf_iter,
     client_kdf_memory |-> kdf.client_kdf_memory,
     client_kdf_parallelism |-> kdf.client_kdf_parallelism,
     password_hint |-> None,
     email_new |-> None, email_new_token |-> None, verified_at |-> None,
     security_stamp |-> 0, stamp_exception |-> None]

InitUser ==
    \E kdf \in StoredKdfs, pk \in Option({"pk1"}) : user = RegisteredUser(kdf, pk)

\* Two sessions of the one user.
SessionIds == {"s1", "s2"}

\* Nobody is invited.
NoInvitations ==
    /\ invitations = {}
    /\ invited_memberships = {}

InitStore ==
    /\ devices = Devices
    /\ NoInvitations
    /\ folders \in [FolderIds -> Option({B0})]
    /\ emergency_access \in [EmergencyAccessIds -> Option({B0})]
    /\ memberships \in [OrganizationIds -> Option([reset_password_key : Option({B0})])]
    /\ sends \in [SendIds -> Option({B0})]
    /\ ciphers \in [CipherIds -> Option([organization_uuid : Option({1}), data : {B0}])]

NoAuthRequests ==
    /\ auth_requests = [i \in 1..MaxAuthRequests |-> None]
    /\ next_auth_id = 0
    /\ now = 0
    /\ responded = [i \in 1..MaxAuthRequests |-> None]
    /\ responders = [p \in Responders |-> [pc |-> "idle"]]
    /\ sessions = [p \in SessionIds |-> None]

Init ==
    /\ InitUser
    /\ InitStore
    /\ NoAuthRequests
    /\ last = Idle

\* The request is answered on the current store; `last` keeps the request,
\* the store it met (pre) and the handler's outcome.
Answer_post_rotatekey(data, device, failAt) ==
    LET headers == [user |-> user, device |-> device] IN
    \E r \in {post_rotatekey(data, headers, Db, failAt)} :
        /\ user' = r.user
        /\ folders' = r.folders
        /\ emergency_access' = r.emergency_access
        /\ memberships' = r.memberships
        /\ sends' = r.sends
        /\ ciphers' = r.ciphers
        /\ last' = [op |-> "post_rotatekey", data |-> data, headers |-> headers,
                    failAt |-> failAt, pre |-> Db,
                    err |-> r.err, writes |-> r.writes, notes |-> r.notes,
                    steps |-> r.steps]
        /\ UNCHANGED <<devices, invitations, invited_memberships, auth_vars, race_vars>>

\* A rotation request whose password, KDF, email or public key is refused:
\* the handler returns before it reads the lists or the caller's device, so
\* the lists are left empty and one device stands for all.
RotateRefused ==
    /\ last = Idle
    /\ user.security_stamp < MaxStamp
    /\ \E old \in MasterHashes, mp \in MasterPasswordUnlockData, pk \in PublicKeys :
         LET data == KeyData(old, mp, pk, <<>>, <<>>, <<>>, <<>>, <<>>) IN
         /\ "d1" \in devices
         /\ post_rotatekey(data, [user |-> user, device |-> "d1"], Db, 0).err
                \in {ErrInvalidPassword, ErrKdfOrEmail, ErrKeypair}
         /\ Answer_post_rotatekey(data, "d1", 0)

\* A rotation request that passes those checks, with any lists of at most
\* MaxEntries entries in all and any one store write refused (or none).
RotateAccountKeys ==
    /\ last = Idle
    /\ user.security_stamp < MaxStamp
    /\ \E device \in devices, old \in MasterHashes,
          mp \in MasterPasswordUnlockData, pk \in PublicKeys :
         /\ post_rotatekey(KeyData(old, mp, pk, <<>>, <<>>, <<>>, <<>>, <<>>),
                           [user |-> user, device |-> device], Db, 0).err
                \notin {ErrInvalidPassword, ErrKdfOrEmail, ErrKeypair}
         /\ \E folds \in SeqsUpTo(UpdateFolderData, MaxEntries) :
            \E eas \in SeqsUpTo(UpdateEmergencyAccessData, MaxEntries - Len(folds)) :
            \E rps \in SeqsUpTo(UpdateResetPasswordData,
                                MaxEntries - Len(folds) - Len(eas)) :
            \E snds \in SeqsUpTo(SendData,
                                 MaxEntries - Len(folds) - Len(eas) - Len(rps)) :
            \E ciphs \in SeqsUpTo(CipherData,
                          MaxEntries - Len(folds) - Len(eas) - Len(rps) - Len(snds)) :
              LET data == KeyData(old, mp, pk, ciphs, folds, snds, eas, rps)
                  attempted == post_rotatekey(data, [user |-> user, device |-> device],
                                              Db, 0).n
              IN  \E failAt \in 0..attempted :
                      Answer_post_rotatekey(data, device, failAt)

\* The response has been returned; the request's data is dropped.
Return ==
    /\ last # Idle
    /\ last' = Idle
    /\ UNCHANGED <<account_vars, auth_vars, race_vars>>

Next ==
    \/ RotateRefused
    \/ RotateAccountKeys
    \/ Return

Spec == Init /\ [][Next]_vars

---------------------------------------------------------------------------
(* Device authorization protocol: records and collaborators                *)

ErrAuthRequestNotExist == "AuthRequest doesn't exist"
ErrAuthRequestConflict == "An authentication request with the same device already exists"

AuthRequestIds == 1..MaxAuthRequests

\* The accounts of the store, by email.
UsersByMail == [m \in Emails |-> IF m = "a@x" THEN "u1" ELSE "u2"]

\* The devices of the store: d1 and d2 belong to u1, d3 to u2.
DeviceTable ==
    [d \in {"d1", "d2", "d3"} |->
        [uuid |-> d,
         user_uuid |-> IF d = "d3" THEN "u2" ELSE "u1",
         atype |-> IF d = "d2" THEN 2 ELSE 1]]

DeviceTypes == {1, 2}

\* User::find_by_mail
find_by_mail(email) ==
    IF email \in DOMAIN UsersByMail THEN Some([uuid |-> UsersByMail[email]]) ELSE None

\* Device::find_by_uuid_and_user
find_by_uuid_and_user(device_id, user_uuid) ==
    IF device_id \in DOMAIN DeviceTable /\ DeviceTable[device_id].user_uuid = user_uuid
        THEN Some(DeviceTable[device_id]) ELSE None

\* AuthRequest::new: a pending request, nothing of the response set.
AuthRequest_new(uuid, user_uuid, device_identifier, device_type, ip, access_code, public_key, t) ==
    [uuid |-> uuid, user_uuid |-> user_uuid,
     request_device_identifier |-> device_identifier,
     device_type |-> device_type, request_ip |-> ip,
     access_code |-> access_code, public_key |-> public_key,
     approved |-> None, enc_key |-> None, master_password_hash |-> None,
     response_device_id |-> None, creation_date |-> t, response_date |-> None]

\* AuthRequest::find_by_uuid_and_user
auth_request_find_by_uuid_and_user(reqs, id, user_uuid) ==
    IF id \in DOMAIN reqs /\ IsSome(reqs[id]) /\ Unwrap(reqs[id]).user_uuid = user_uuid
        THEN reqs[id] ELSE None

\* The handler's progress on the auth requests reqs.
auth_start(reqs, failAt) ==
    [auth_requests |-> reqs, n |-> 0, failAt |-> failAt, err |-> Ok,
     notes |-> <<>>, steps |-> <<>>, events |-> <<>>]

\* auth_request.save(&mut conn).await?
auth_request_save(st, auth_request) ==
    LET s1 == [st EXCEPT !.steps = Append(@, [step |-> "auth_request.save", to |-> {}])] IN
    IF st.n + 1 = st.failAt
        THEN [s1 EXCEPT !.n = @ + 1, !.err = ErrDb]
        ELSE [s1 EXCEPT !.n = @ + 1,
                        !.auth_requests = [@ EXCEPT ![auth_request.uuid] = Some(auth_request)]]

\* auth_request.delete(&mut conn).await?
auth_request_delete(st, auth_request) ==
    LET s1 == [st EXCEPT !.steps = Append(@, [step |-> "auth_request.delete", to |-> {}])] IN
    IF st.n + 1 = st.failAt
        THEN [s1 EXCEPT !.n = @ + 1, !.err = ErrDb]
        ELSE [s1 EXCEPT !.n = @ + 1,
                        !.auth_requests = [@ EXCEPT ![auth_request.uuid] = None]]

\* nt.send_*, ant.send_*: the notification is recorded as sent.
notify(st, kind, user_uuid, id) ==
    [st EXCEPT !.notes = Append(@, [type |-> kind, user_uuid |-> user_uuid, id |-> id]),
               !.steps = Append(@, [step |-> kind, to |-> {}])]

log_user_event(st, event_type, user_uuid, device_type) ==
    [st EXCEPT !.events = Append(@, [event_type |-> event_type, user_uuid |-> user_uuid,
                                     device_type |-> device_type]),
               !.steps = Append(@, [step |-> event_type, to |-> {}])]

---------------------------------------------------------------------------
(* post_auth_request                                                       *)

\* Variant: the device's type is not compared with the caller's.
post_auth_request_without_type_check(data, client_headers, reqs, uuid, t, failAt) ==
    LET st == auth_start(reqs, failAt)
        found == find_by_mail(data.email)
    IN
    IF found = None THEN [st EXCEPT !.err = ErrAuthRequestNotExist]
    ELSE
    LET u == Unwrap(found)
        device == find_by_uuid_and_user(data.device_identifier, u.uuid)
    IN
    IF ~IsSome(device) THEN [st EXCEPT !.err = ErrAuthRequestNotExist]
    ELSE
    LET auth_request == AuthRequest_new(uuid, u.uuid, data.device_identifier,
                                        client_headers.device_type, client_headers.ip,
                                        data.access_code, data.public_key, t)
        s1 == auth_request_save(st, auth_request)
    IN  IF s1.err # Ok THEN s1
        ELSE log_user_event(notify(s1, "auth_request", u.uuid, uuid),
                            "UserRequestedDeviceApproval", u.uuid,
                            client_headers.device_type)

post_auth_request(data, client_headers, reqs, uuid, t, failAt) ==
    LET st == auth_start(reqs, failAt)
        found == find_by_mail(data.email)
    IN
    IF found = None THEN [st EXCEPT !.err = ErrAuthRequestNotExist]
    ELSE
    LET u == Unwrap(found)
        device == find_by_uuid_and_user(data.device_identifier, u.uuid)
    IN
    IF ~(IsSome(device) /\ Unwrap(device).atype = client_headers.device_type)
        THEN [st EXCEPT !.err = ErrAuthRequestNotExist]
    ELSE
    LET auth_request == AuthRequest_new(uuid, u.uuid, data.device_identifier,
                                        client_headers.device_type, client_headers.ip,
                                        data.access_code, data.public_key, t)
        s1 == auth_request_save(st, auth_request)
    IN  IF s1.err # Ok THEN s1
        ELSE log_user_event(notify(s1, "auth_request", u.uuid, uuid),
                            "UserRequestedDeviceApproval", u.uuid,
                            client_headers.device_type)

---------------------------------------------------------------------------
(* put_auth_request                                                        *)

\* Variant: the approval is stored without its response date.
approve_without_response_date(st, auth_request, data, headers, t) ==
    LET approved == [auth_request EXCEPT
                        !.approved = Some(data.request_approved),
                        !.enc_key = Some(data.key),
                        !.master_password_hash = data.master_password_hash,
                        !.response_device_id = Some(data.device_identifier)]
        s1 == auth_request_save(st, approved)
    IN  IF s1.err # Ok THEN s1
        ELSE log_user_event(
                 notify(notify(s1, "anonymous_auth_response", approved.user_uuid,
                               approved.uuid),
                        "auth_response", approved.user_uuid, approved.uuid),
                 "OrganizationUserApprovedAuthRequest", headers.user.uuid,
                 headers.device.atype)

\* Variant: the approval is announced before it is stored.
approve_notifies_first(st, auth_request, data, headers, t) ==
    LET approved == [auth_request EXCEPT
                        !.approved = Some(data.request_approved),
                        !.enc_key = Some(data.key),
                        !.master_password_hash = data.master_password_hash,
                        !.response_device_id = Some(data.device_identifier),
                        !.response_date = Some(t)]
        s1 == notify(notify(st, "anonymous_auth_response", approved.user_uuid,
                            approved.uuid),
                     "auth_response", approved.user_uuid, approved.uuid)
        s2 == auth_request_save(s1, approved)
    IN  IF s2.err # Ok THEN s2
        ELSE log_user_event(s2, "OrganizationUserApprovedAuthRequest",
                            headers.user.uuid, headers.device.atype)

\* Variant: the approver's master password hash is not stored.
approve_without_password_hash(st, auth_request, data, headers, t) ==
    LET approved == [auth_request EXCEPT
                        !.approved = Some(data.request_approved),
                        !.enc_key = Some(data.key),
                        !.response_device_id = Some(data.device_identifier),
                        !.response_date = Some(t)]
        s1 == auth_request_save(st, approved)
    IN  IF s1.err # Ok THEN s1
        ELSE log_user_event(
                 notify(notify(s1, "anonymous_auth_response", approved.user_uuid,
                               approved.uuid),
                        "auth_response", approved.user_uuid, approved.uuid),
                 "OrganizationUserApprovedAuthRequest", headers.user.uuid,
                 headers.device.atype)

\* Lines 1435-1453: the approval is stored, then announced and logged.
approve(st, auth_request, data, headers, t) ==
    LET approved == [auth_request EXCEPT
                        !.approved = Some(data.request_approved),
                        !.enc_key = Some(data.key),
                        !.master_password_hash = data.master_password_hash,
                        !.response_device_id = Some(data.device_identifier),
                        !.response_date = Some(t)]
        s1 == auth_request_save(st, approved)
    IN  IF s1.err # Ok THEN s1
        ELSE log_user_event(
                 notify(notify(s1, "anonymous_auth_response", approved.user_uuid,
                               approved.uuid),
                        "auth_response", approved.user_uuid, approved.uuid),
                 "OrganizationUserApprovedAuthRequest", headers.user.uuid,
                 headers.device.atype)

\* Variant: a denial is stored in the record instead of deleting it.
deny_keeps_record(st, auth_request, headers) ==
    LET s1 == auth_request_save(st, [auth_request EXCEPT !.approved = Some(FALSE)])
    IN  IF s1.err # Ok THEN s1
        ELSE log_user_event(s1, "OrganizationUserRejectedAuthRequest",
                            headers.user.uuid, headers.device.atype)

\* Variant: deleting a record that is no longer stored is an error.
deny_fails_when_gone(st, auth_request, headers) ==
    IF st.auth_requests[auth_request.uuid] = None
        THEN [st EXCEPT !.n = @ + 1, !.err = ErrAuthRequestNotExist]
    ELSE
    LET s1 == auth_request_delete(st, auth_request)
    IN  IF s1.err # Ok THEN s1
        ELSE log_user_event(s1, "OrganizationUserRejectedAuthRequest",
                            headers.user.uuid, headers.device.atype)

\* Lines 1454-1465: a denied request is deleted, and the denial logged.
deny(st, auth_request, headers) ==
    LET s1 == auth_request_delete(st, auth_request)
    IN  IF s1.err # Ok THEN s1
        ELSE log_user_event(s1, "OrganizationUserRejectedAuthRequest",
                            headers.user.uuid, headers.device.atype)

\* Variant: the check of approved.is_some() is left out.
put_auth_request_without_terminal_check(auth_request_id, data, headers, reqs, t, failAt) ==
    LET st == auth_start(reqs, failAt)
        found == auth_request_find_by_uuid_and_user(reqs, auth_request_id, headers.user.uuid)
    IN
    IF found = None THEN [st EXCEPT !.err = ErrAuthRequestNotExist]
    ELSE IF headers.device.uuid # data.device_identifier
        THEN [st EXCEPT !.err = ErrAuthRequestNotExist]
    ELSE IF data.request_approved
        THEN approve(st, Unwrap(found), data, headers, t)
    ELSE deny(st, Unwrap(found), headers)

\* Variant: the answer is stored in the record whether it approves or not.
respond_stores_either_answer(found, data, headers, reqs, t, failAt) ==
    LET st == auth_start(reqs, failAt) IN
    IF found = None THEN [st EXCEPT !.err = ErrAuthRequestNotExist]
    ELSE IF headers.device.uuid # data.device_identifier
        THEN [st EXCEPT !.err = ErrAuthRequestNotExist]
    ELSE IF IsSome(Unwrap(found).approved)
        THEN [st EXCEPT !.err = ErrAuthRequestConflict]
    ELSE approve(st, Unwrap(found), data, headers, t)

\* Variant: the caller's device is not compared with the payload's.
respond_without_device_check(found, data, headers, reqs, t, failAt) ==
    LET st == auth_start(reqs, failAt) IN
    IF found = None THEN [st EXCEPT !.err = ErrAuthRequestNotExist]
    ELSE IF IsSome(Unwrap(found).approved)
        THEN [st EXCEPT !.err = ErrAuthRequestConflict]
    ELSE IF data.request_approved
        THEN approve(st, Unwrap(found), data, headers, t)
    ELSE deny(st, Unwrap(found), headers)

\* Lines 1424-1480: what the handler does with the record it has read,
\* on the store as it is when the handler gets there.
respond(found, data, headers, reqs, t, failAt) ==
    LET st == auth_start(reqs, failAt) IN
    IF found = None THEN [st EXCEPT !.err = ErrAuthRequestNotExist]
    ELSE IF headers.device.uuid # data.device_identifier
        THEN [st EXCEPT !.err = ErrAuthRequestNotExist]
    ELSE IF IsSome(Unwrap(found).approved)
        THEN [st EXCEPT !.err = ErrAuthRequestConflict]
    ELSE IF data.request_approved
        THEN approve(st, Unwrap(found), data, headers, t)
    ELSE deny(st, Unwrap(found), headers)

\* The handler run without another request in between: the record is
\* read (1418-1422) from the store that respond writes to.
put_auth_request(auth_request_id, data, headers, reqs, t, failAt) ==
    respond(auth_request_find_by_uuid_and_user(reqs, auth_request_id, headers.user.uuid),
            data, headers, reqs, t, failAt)

---------------------------------------------------------------------------
(* get_auth_request_response, get_auth_requests                            *)

\* AuthRequest::find_by_uuid
auth_request_find_by_uuid(reqs, id) ==
    IF id \in DOMAIN reqs THEN reqs[id] ELSE None

\* AuthRequest::find_by_user: the user's requests, in the order of their ids.
RECURSIVE auth_request_find_by_user_from(_, _, _)
auth_request_find_by_user_from(reqs, user_uuid, i) ==
    IF i \notin DOMAIN reqs THEN <<>>
    ELSE (IF IsSome(reqs[i]) /\ Unwrap(reqs[i]).user_uuid = user_uuid
              THEN <<Unwrap(reqs[i])>> ELSE <<>>)
         \o auth_request_find_by_user_from(reqs, user_uuid, i + 1)

auth_request_find_by_user(reqs, user_uuid) ==
    auth_request_find_by_user_from(reqs, user_uuid, 1)

\* AuthRequest::check_access_code
check_access_code(auth_request, code) == auth_request.access_code = code

\* The json! object of a request (1502-1514, 1528-1540).
auth_request_json(id, auth_request) ==
    [id |-> id, publicKey |-> auth_request.public_key,
     requestDeviceType |-> auth_request.device_type,
     requestIpAddress |-> auth_request.request_ip,
     key |-> auth_request.enc_key,
     masterPasswordHash |-> auth_request.master_password_hash,
     creationDate |-> auth_request.creation_date,
     responseDate |-> auth_request.response_date,
     requestApproved |-> auth_request.approved]

\* The response of a handler that writes nothing: the error shown to the
\* caller, the message that is only logged, and the body.
answer(reqs, err, log, body) ==
    [auth_requests |-> reqs, err |-> err, log |-> log, body |-> body]

\* Variant: the caller's IP address is not compared with the request's.
get_auth_request_response_without_ip(auth_request_id, code, client_headers, reqs) ==
    LET found == auth_request_find_by_uuid(reqs, auth_request_id) IN
    IF found = None THEN answer(reqs, ErrAuthRequestNotExist, "User not found", None)
    ELSE IF \/ Unwrap(found).device_type # client_headers.device_type
            \/ ~check_access_code(Unwrap(found), code)
        THEN answer(reqs, ErrAuthRequestNotExist, "Invalid device, IP or code", None)
    ELSE answer(reqs, Ok, "", Some(auth_request_json(auth_request_id, Unwrap(found))))

get_auth_request_response(auth_request_id, code, client_headers, reqs) ==
    LET found == auth_request_find_by_uuid(reqs, auth_request_id) IN
    IF found = None THEN answer(reqs, ErrAuthRequestNotExist, "User not found", None)
    ELSE IF \/ Unwrap(found).device_type # client_headers.device_type
            \/ Unwrap(found).request_ip # client_headers.ip
            \/ ~check_access_code(Unwrap(found), code)
        THEN answer(reqs, ErrAuthRequestNotExist, "Invalid device, IP or code", None)
    ELSE answer(reqs, Ok, "", Some(auth_request_json(auth_request_id, Unwrap(found))))

\* .iter().filter(..).map(..).collect()
RECURSIVE pending_json(_)
pending_json(requests) ==
    IF requests = <<>> THEN <<>>
    ELSE (IF Head(requests).approved = None
              THEN <<auth_request_json(Head(requests).uuid, Head(requests))>>
              ELSE <<>>)
         \o pending_json(Tail(requests))

RECURSIVE all_json(_)
all_json(requests) ==
    IF requests = <<>> THEN <<>>
    ELSE <<auth_request_json(Head(requests).uuid, Head(requests))>>
         \o all_json(Tail(requests))

\* Variant: the requests are not filtered on approved.
get_auth_requests_unfiltered(headers, reqs) ==
    answer(reqs, Ok, "", Some(all_json(auth_request_find_by_user(reqs, headers.user.uuid))))

get_auth_requests(headers, reqs) ==
    answer(reqs, Ok, "", Some(pending_json(auth_request_find_by_user(reqs, headers.user.uuid))))

---------------------------------------------------------------------------
(* purge_auth_requests                                                     *)

\* The configured time a pending request lives, in ticks.
AuthRequestTtl == 1

\* AuthRequest::purge_expired_auth_requests: the pending requests older
\* than the TTL are deleted, in one sweep.
purge_expired_auth_requests(reqs, t) ==
    [i \in DOMAIN reqs |->
        IF /\ IsSome(reqs[i])
           /\ Unwrap(reqs[i]).approved = None
           /\ t - Unwrap(reqs[i]).creation_date > AuthRequestTtl
            THEN None ELSE reqs[i]]

\* Without a connection the sweep only logs an error.
purge_auth_requests(pool_ok, reqs, t) ==
    IF pool_ok THEN purge_expired_auth_requests(reqs, t) ELSE reqs

---------------------------------------------------------------------------
(* The device authorization protocol as a state machine                    *)

AuthRequestRequest ==
    [access_code : {"c1"}, device_identifier : {"d1", "d3"},
     email : Emails \cup {"c@x"}, public_key : {"pk1"}]

ClientHeaders == [device_type : DeviceTypes, ip : {"ip1"}]

AuthResponseRequest ==
    [device_identifier : DOMAIN DeviceTable, key : {B1},
     master_password_hash : Option({"mh1"}), request_approved : BOOLEAN]

\* The authenticated sessions: a device of the store and its user.
Sessions ==
    {[user |-> [uuid |-> DeviceTable[d].user_uuid],
      device |-> [uuid |-> d, atype |-> DeviceTable[d].atype],
      ip |-> "ip1"] : d \in DOMAIN DeviceTable}

\* The account of the rotation model with nothing stored, and no auth
\* request yet.
InitAuth ==
    /\ user = RegisteredUser(CHOOSE kdf \in StoredKdfs : kdf.client_kdf_type = Pbkdf2,
                             Some("pk1"))
    /\ folders = [i \in FolderIds |-> None]
    /\ emergency_access = [i \in EmergencyAccessIds |-> None]
    /\ memberships = [i \in OrganizationIds |-> None]
    /\ sends = [i \in SendIds |-> None]
    /\ ciphers = [i \in CipherIds |-> None]
    /\ devices = Devices
    /\ NoInvitations
    /\ NoAuthRequests
    /\ last = Idle

\* Create: the new request takes the next unused id, which is used up
\* only if the request is stored.
CreateAuthRequest ==
    /\ last = Idle
    /\ next_auth_id < MaxAuthRequests
    /\ \E data \in AuthRequestRequest, client_headers \in ClientHeaders :
         LET uuid == next_auth_id + 1
             attempted == post_auth_request(data, client_headers, auth_requests,
                                            uuid, now, 0).n
         IN  \E failAt \in 0..attempted :
             \E r \in {post_auth_request(data, client_headers, auth_requests,
                                          uuid, now, failAt)} :
                 /\ auth_requests' = r.auth_requests
                 /\ next_auth_id' = IF r.err = Ok THEN uuid ELSE next_auth_id
                 /\ last' = [op |-> "post_auth_request", id |-> uuid, data |-> data,
                             headers |-> client_headers, failAt |-> failAt,
                             pre |-> auth_requests, prior |-> responded[uuid],
                             err |-> r.err, notes |-> r.notes, steps |-> r.steps,
                           events |-> r.events]
                 /\ UNCHANGED <<account_vars, now, responded, race_vars>>

\* Respond: any session answers any request id.  `responded` keeps the
\* outcome of the first Respond that succeeded on the id.
RespondAuthRequest ==
    /\ last = Idle
    /\ \E auth_request_id \in AuthRequestIds, data \in AuthResponseRequest,
          headers \in Sessions :
         LET attempted == put_auth_request(auth_request_id, data, headers,
                                           auth_requests, now, 0).n
         IN  \E failAt \in 0..attempted :
             LET r == put_auth_request(auth_request_id, data, headers,
                                       auth_requests, now, failAt)
                 outcome == [approved |-> data.request_approved,
                             user_uuid |-> headers.user.uuid, data |-> data]
             IN  /\ auth_requests' = r.auth_requests
                 /\ responded' =
                        IF r.err = Ok /\ responded[auth_request_id] = None
                            THEN [responded EXCEPT ![auth_request_id] = Some(outcome)]
                            ELSE responded
                 /\ last' = [op |-> "put_auth_request", id |-> auth_request_id,
                             data |-> data, headers |-> headers, failAt |-> failAt,
                             found |-> auth_request_find_by_uuid_and_user(
                                           auth_requests, auth_request_id,
                                           headers.user.uuid),
                             pre |-> auth_requests,
                             prior |-> responded[auth_request_id],
                             err |-> r.err, notes |-> r.notes, steps |-> r.steps,
                           events |-> r.events]
                 /\ UNCHANGED <<account_vars, next_auth_id, now, race_vars>>

\* Utc::now() advances between requests.
Tick ==
    /\ last = Idle
    /\ now < MaxTime
    /\ now' = now + 1
    /\ UNCHANGED <<account_vars, auth_requests, next_auth_id, responded, race_vars, last>>

\* The callers of the poll: not authenticated, of any device type, from
\* the address of the Create requests or another, with the code of the
\* Create requests or another.
PollHeaders == [device_type : DeviceTypes, ip : {"ip1", "ip2"}]

AccessCodes == {"c1", "c2"}

GetAuthRequestByCode ==
    /\ last = Idle
    /\ \E auth_request_id \in AuthRequestIds, code \in AccessCodes,
          client_headers \in PollHeaders :
         LET r == get_auth_request_response(auth_request_id, code, client_headers,
                                            auth_requests)
         IN  /\ auth_requests' = r.auth_requests
             /\ last' = [op |-> "get_auth_request_response", id |-> auth_request_id,
                         code |-> code, headers |-> client_headers,
                         pre |-> auth_requests,
                         err |-> r.err, log |-> r.log, body |-> r.body]
    /\ UNCHANGED <<account_vars, next_auth_id, now, responded, race_vars>>

ListPendingAuthRequests ==
    /\ last = Idle
    /\ \E headers \in Sessions :
         LET r == get_auth_requests(headers, auth_requests)
         IN  /\ auth_requests' = r.auth_requests
             /\ last' = [op |-> "get_auth_requests", headers |-> headers,
                         pre |-> auth_requests,
                         err |-> r.err, log |-> r.log, body |-> r.body]
    /\ UNCHANGED <<account_vars, next_auth_id, now, responded, race_vars>>

\* The background sweep, with or without a connection from the pool.
PurgeExpiredAuthRequests ==
    /\ last = Idle
    /\ \E pool_ok \in BOOLEAN :
         /\ auth_requests' = purge_auth_requests(pool_ok, auth_requests, now)
         /\ last' = [op |-> "purge_auth_requests", pool_ok |-> pool_ok,
                     pre |-> auth_requests, at |-> now]
    /\ UNCHANGED <<account_vars, next_auth_id, now, responded, race_vars>>

NextAuth ==
    \/ CreateAuthRequest
    \/ RespondAuthRequest
    \/ GetAuthRequestByCode
    \/ ListPendingAuthRequests
    \/ PurgeExpiredAuthRequests
    \/ Tick
    \/ Return

SpecAuth == InitAuth /\ [][NextAuth]_vars

---------------------------------------------------------------------------
(* Key rotation: what the properties speak about                           *)

Families == <<"folders", "emergency_access", "memberships", "sends", "ciphers">>

Rotated == last.op = "post_rotatekey"

\* The identifiers the account owns in a family, in the store db.
Owned(db, family) ==
    CASE family = "folders" -> {i \in FolderIds : db.folders[i] # None}
      [] family = "emergency_access" ->
            {i \in EmergencyAccessIds : db.emergency_access[i] # None}
      [] family = "memberships" ->
            {o \in OrganizationIds : /\ db.memberships[o] # None
                                     /\ db.memberships[o][1].reset_password_key # None}
      [] family = "sends" -> {i \in SendIds : db.sends[i] # None}
      [] family = "ciphers" ->
            {i \in CipherIds : /\ db.ciphers[i] # None
                               /\ db.ciphers[i][1].organization_uuid = None}

\* The entries of a family's list in the payload; of the ciphers, those that
\* carry no organization id.
Entries(data, family) ==
    CASE family = "folders" -> data.account_data.folders
      [] family = "emergency_access" ->
            [i \in DOMAIN data.account_unlock_data.emergency_access_unlock_data |->
                [id |-> Some(data.account_unlock_data.emergency_access_unlock_data[i].id)]]
      [] family = "memberships" ->
            [i \in DOMAIN data.account_unlock_data.organization_account_recovery_unlock_data |->
                [id |-> Some(data.account_unlock_data
                              .organization_account_recovery_unlock_data[i].organization_id)]]
      [] family = "sends" -> data.account_data.sends
      [] family = "ciphers" ->
            SelectSeq(data.account_data.ciphers, LAMBDA c : c.organization_id = None)

\* The identifiers a payload names in a family.
Named(data, family) ==
    {e.id[1] : e \in {x \in Range(Entries(data, family)) : x.id # None}}

Short(family) == ~(Owned(last.pre, family) \subseteq Named(last.data, family))

AllExistingError(family) ==
    CASE family = "folders" -> ErrAllFolders
      [] family = "emergency_access" -> ErrAllEmergencyAccess
      [] family = "memberships" -> ErrAllResetPassword
      [] family = "sends" -> ErrAllSends
      [] family = "ciphers" -> ErrAllCiphers

NotFoundError(family) ==
    CASE family = "folders" -> ErrNoFolder
      [] family = "emergency_access" -> ErrNoEmergencyAccess
      [] family = "memberships" -> ErrNoResetPassword
      [] family = "sends" -> ErrNoSend
      [] family = "ciphers" -> ErrNoCipher

FamilySet == {Families[i] : i \in DOMAIN Families}

PasswordCorrect ==
    last.pre.user.password_hash = <<"pbkdf2", last.data.old_master_key_authentication_hash>>

KdfEmailEqual ==
    LET mp == last.data.account_unlock_data.master_password_unlock_data
        u == last.pre.user
    IN  /\ mp.kdf_type = u.client_kdf_type
        /\ mp.kdf_iterations = u.client_kdf_iter
        /\ mp.kdf_memory = u.client_kdf_memory
        /\ mp.kdf_parallelism = u.client_kdf_parallelism
        /\ mp.email = u.email

PublicKeyEqual ==
    last.pre.user.public_key = <<last.data.account_keys.account_public_key>>

\* The request passes the checks made before the completeness checks.
Admitted == PasswordCorrect /\ KdfEmailEqual /\ PublicKeyEqual

\* Nothing was written by the request and nothing was sent.
NothingWritten ==
    /\ Db = last.pre
    /\ last.writes = <<>>
    /\ last.notes = <<>>

---------------------------------------------------------------------------
---------------------------------------------------------------------------
(* C2: rotation fails fast.  When RotateAccountKeys is rejected by the     *)
(* current-password check, the KDF/email check, the public-key check or a  *)
(* completeness check, no folder, emergency-access grant, membership,      *)
(* send, cipher or user record has been written, the security stamp is     *)
(* unchanged and no logout has been broadcast.                             *)
PreconditionErrors ==
    {ErrInvalidPassword, ErrKdfOrEmail, ErrKeypair}
        \cup {AllExistingError(f) : f \in FamilySet}

C2_FailFast ==
    (Rotated /\ last.err \in PreconditionErrors) =>
        /\ NothingWritten
        /\ user.security_stamp = last.pre.user.security_stamp

\* A rotation refused for its folders although its other lists name owned
\* records that the apply phase would have written.
C2_Witness ==
    /\ Rotated
    /\ last.err = ErrAllFolders
    /\ \E f \in FamilySet \ {"folders"} :
          Named(last.data, f) \cap Owned(last.pre, f) # {}

---------------------------------------------------------------------------
(* C3: a complete rotation succeeds.                                       *)

\* Every family's named identifiers include those the account owns.
Complete == \A f \in FamilySet : ~Short(f)

RotationSucceeded ==
    /\ last.err = Ok
    /\ user.security_stamp # last.pre.user.security_stamp
    /\ last.notes = <<[type |-> "logout", id |-> user.uuid,
                       ut |-> <<last.headers.device>>]>>

\* Every entry of the payload's lists carries an identifier.
AllEntriesIdentified ==
    \A f \in FamilySet : \A e \in Range(Entries(last.data, f)) : e.id # None

AllEntriesOwned ==
    \A f \in FamilySet :
        \A e \in Range(Entries(last.data, f)) :
            IF e.id = None THEN f = "folders" ELSE e.id[1] \in Owned(last.pre, f)

---------------------------------------------------------------------------
(* C4: an unknown entry in the apply phase.  When a rotation that passed   *)
(* validation has an entry (folder, emergency-access grant, reset-password *)
(* key, send or personal cipher) that matches no record the account owns,  *)
(* the operation fails and the user record is not written; the error is    *)
(* the not-found error of the first such entry's family, unless the apply  *)
(* phase stopped before it (a refused store write, or an abort).           *)

\* An entry of the family matches no owned record.  A send or cipher entry
\* without an id matches none; a folder entry without an id is skipped.
Unknown(f) ==
    \E e \in Range(Entries(last.data, f)) :
        IF e.id = None THEN f # "folders" ELSE e.id[1] \notin Owned(last.pre, f)

FirstUnknown ==
    Families[CHOOSE i \in DOMAIN Families :
                /\ Unknown(Families[i])
                /\ \A j \in 1..(i - 1) : ~Unknown(Families[j])]

C4_UnknownEntryFails ==
    (Rotated /\ last.err \notin PreconditionErrors /\ \E f \in FamilySet : Unknown(f)) =>
        /\ last.err # Ok
        /\ user = last.pre.user
        /\ \A i \in DOMAIN last.writes : last.writes[i].family # "user"
        /\ (last.failAt = 0 /\ last.err # Panic)
              => last.err = NotFoundError(FirstUnknown)

\* A reset-password key for an organization the account has no such key in,
\* met after an owned record was rewritten.
C4_Witness ==
    /\ Rotated
    /\ Unknown("memberships")
    /\ last.err = ErrNoResetPassword
    /\ Len(last.writes) = 1

---------------------------------------------------------------------------
(* C5: apply order and partial failure.  The writes of a rotation are made *)
(* in the order folders, emergency-access grants, reset-password keys,     *)
(* sends, ciphers, user record, each family in payload order; when the     *)
(* apply phase fails, the writes made before the failure stay committed    *)
(* and nothing after it, nor the user record, is written.                  *)

\* The writes a payload asks for, in the order of the apply phase.
RECURSIVE PlannedFrom(_, _)
PlannedFrom(data, i) ==
    IF i > Len(Families) THEN <<[family |-> "user", id |-> "u1"]>>
    ELSE LET named == SelectSeq(Entries(data, Families[i]), LAMBDA e : e.id # None)
         IN  [k \in DOMAIN named |-> [family |-> Families[i], id |-> named[k].id[1]]]
                 \o PlannedFrom(data, i + 1)

Planned == PlannedFrom(last.data, 1)

IsPrefix(s, t) == Len(s) <= Len(t) /\ \A i \in DOMAIN s : s[i] = t[i]

Written(f) == {last.writes[i].id : i \in {j \in DOMAIN last.writes : last.writes[j].family = f}}

\* What a record of the family holds once the rotation has rewritten it.
Rewritten(f, old) ==
    CASE f = "memberships" -> <<[old[1] EXCEPT !.reset_password_key = <<B1>>]>>
      [] f = "ciphers" -> <<[old[1] EXCEPT !.data = B1]>>
      [] OTHER -> <<B1>>

\* The store holds exactly the writes of last.writes on top of last.pre.
WritesCommitted ==
    /\ \A f \in FamilySet : \A i \in DOMAIN Db[f] :
          Db[f][i] = IF i \in Written(f) THEN Rewritten(f, last.pre[f][i])
                     ELSE last.pre[f][i]
    /\ IF Written("user") = {} THEN user = last.pre.user
       ELSE user.security_stamp # last.pre.user.security_stamp

C5_ApplyOrder ==
    Rotated =>
        /\ IsPrefix(last.writes, Planned)
        /\ WritesCommitted
        /\ last.err # Ok => Written("user") = {}
        /\ last.err = Ok => last.writes = Planned

\* Two records of different families were rewritten, then the store refused
\* the user record.
C5_Witness ==
    /\ Rotated
    /\ last.err = ErrDb
    /\ Len(last.writes) = 2
    /\ last.writes[1].family # last.writes[2].family
    /\ Len(Planned) = 3

---------------------------------------------------------------------------
(* C6: rotation is no parameter-change path.  RotateAccountKeys is         *)
(* rejected, before any write, whenever the payload's KDF type,            *)
(* iterations, memory, parallelism or email differs from the stored value, *)
(* or the payload's public key differs from the stored one (also when the  *)
(* account has no stored public key).                                      *)
C6_NoSmuggledChange ==
    (Rotated /\ ~(KdfEmailEqual /\ PublicKeyEqual)) =>
        /\ last.err \in {ErrInvalidPassword, ErrKdfOrEmail, ErrKeypair}
        /\ (PasswordCorrect /\ ~KdfEmailEqual) => last.err = ErrKdfOrEmail
        /\ (PasswordCorrect /\ KdfEmailEqual) => last.err = ErrKeypair
        /\ NothingWritten

\* A rotation by an account that has no stored public key.
C6_Witness ==
    /\ Rotated
    /\ PasswordCorrect /\ KdfEmailEqual
    /\ last.pre.user.public_key = None
    /\ last.err = ErrKeypair

---------------------------------------------------------------------------
(* C7: frame of a successful rotation.  It leaves the stored KDF type,     *)
(* iterations, memory, parallelism, email and public key as they were; of  *)
(* the user record only the encrypted private key, the password hash, the  *)
(* encrypted user key and the security stamp change.                       *)
RotatedUserFields == {"private_key", "password_hash", "akey", "security_stamp"}

C7_UserFrame ==
    (Rotated /\ last.err = Ok) =>
        /\ DOMAIN user = DOMAIN last.pre.user
        /\ \A k \in DOMAIN user \ RotatedUserFields : user[k] = last.pre.user[k]
        /\ user.private_key =
               <<last.data.account_keys.user_key_encrypted_account_private_key>>
        /\ user.password_hash =
               <<"pbkdf2", last.data.account_unlock_data.master_password_unlock_data
                              .master_key_authentication_hash>>
        /\ user.akey = last.data.account_unlock_data.master_password_unlock_data
                          .master_key_encrypted_user_key
        /\ user.security_stamp # last.pre.user.security_stamp

\* A successful rotation of an Argon2id account.
C7_Witness ==
    /\ Rotated
    /\ last.err = Ok
    /\ user.client_kdf_type = Argon2id
    /\ user.client_kdf_memory # None
    /\ user.private_key # last.pre.user.private_key

---------------------------------------------------------------------------
(* C8: ciphers with an organization id are filtered out.  Such payload     *)
(* entries neither satisfy nor fail the cipher completeness check and are  *)
(* neither looked up nor written: the rotation ends exactly as it does on  *)
(* the payload without them, and the ciphers owned by an organization are   *)
(* unchanged.                                                              *)

\* The request's payload without the ciphers that carry an organization id.
WithoutOrganizationCiphers ==
    [last.data EXCEPT !.account_data.ciphers =
        SelectSeq(@, LAMBDA c : c.organization_id = None)]

OrganizationOwned(db) ==
    {i \in CipherIds : db.ciphers[i] # None /\ db.ciphers[i][1].organization_uuid # None}

---------------------------------------------------------------------------
(* Device authorization: what the properties speak about                   *)

\* The request just answered is a Respond on an id on which an earlier
\* Respond has succeeded.
LaterRespond == last.op = "put_auth_request" /\ IsSome(last.prior)

FirstOutcomeApproved == Unwrap(last.prior).approved

\* The caller is the user of the first Respond and names its own device.
CallerPassesChecks ==
    /\ last.headers.user.uuid = Unwrap(last.prior).user_uuid
    /\ last.headers.device.uuid = last.data.device_identifier

StillStored == IsSome(last.pre[last.id])

RespondChangedNothing ==
    /\ auth_requests = last.pre
    /\ last.notes = <<>>
    /\ last.events = <<>>

\* C9, as stated: after a first successful Respond (approve or deny) on a
\* request id, a later Respond on the same id by the same user, naming its
\* own device, fails with the state-conflict error, whichever the first
\* outcome was.
C9_ConflictWhicheverOutcome ==
    (LaterRespond /\ CallerPassesChecks) => last.err = ErrAuthRequestConflict

\* C9, amended: after a first successful Respond on a request id, every
\* later Respond on the same id fails and changes nothing: with the
\* state-conflict error if the first outcome was approval, the record is
\* still stored and the caller passes the owner and device checks; with the
\* generic "AuthRequest doesn't exist" error if the first outcome was denial
\* or the caller fails those checks.
C9_RespondedOnce ==
    LaterRespond =>
        /\ last.err # Ok
        /\ RespondChangedNothing
        /\ (FirstOutcomeApproved /\ StillStored /\ CallerPassesChecks)
               => last.err = ErrAuthRequestConflict
        /\ (~FirstOutcomeApproved \/ ~CallerPassesChecks)
               => last.err = ErrAuthRequestNotExist

\* A request was denied, and the same user, naming its own device, has
\* responded to it again.
C9_Witness ==
    /\ LaterRespond
    /\ ~FirstOutcomeApproved
    /\ CallerPassesChecks
    /\ last.err = ErrAuthRequestNotExist

\* The stored requests that have approved set.
Terminal(reqs) == {i \in DOMAIN reqs : IsSome(reqs[i]) /\ IsSome(Unwrap(reqs[i]).approved)}

\* C10: a Respond call, approve or deny, by any device of any user, leaves
\* every stored auth request that has approved set as it was: its approved
\* flag, enc_key, master_password_hash, response_device_id and
\* response_date are unchanged and it is not deleted.  By induction the
\* same holds of any sequence of Respond calls.
C10_TerminalIsFinal ==
    last.op = "put_auth_request" =>
        \A i \in Terminal(last.pre) : auth_requests[i] = last.pre[i]

\* An approved request has been answered again, later, by another device
\* of its user, with a denial and another master password hash; the call
\* passed the owner and device checks.
C10_Witness ==
    /\ last.op = "put_auth_request"
    /\ last.id \in Terminal(last.pre)
    /\ LET stored == Unwrap(last.pre[last.id]) IN
        /\ last.headers.user.uuid = stored.user_uuid
        /\ last.headers.device.uuid = last.data.device_identifier
        /\ Some(last.headers.device.uuid) # stored.response_device_id
        /\ ~last.data.request_approved
        /\ last.data.master_password_hash # stored.master_password_hash
        /\ Some(now) # stored.response_date
    /\ last.err = ErrAuthRequestConflict

---------------------------------------------------------------------------
(* Respond requests in flight together                                     *)

\* put_auth_request awaits the store twice: at the lookup (1418-1419) and
\* at the save or delete (1441, 1456).  Another request, or the sweep, can
\* run between the two.  Responder r1 is a session of device d1 and r2 one
\* of device d2, both of user u1; each names its own device in its payload.
ResponderSession(p) ==
    CHOOSE h \in Sessions : h.device.uuid = (IF p = "r1" THEN "d1" ELSE "d2")

ResponderPayloads(p) ==
    {data \in AuthResponseRequest :
        /\ data.device_identifier = ResponderSession(p).device.uuid
        /\ data.master_password_hash = None}

\* Lines 1418-1422: the lookup.  The handler holds the record it found.
RespondRead(p) ==
    /\ last = Idle
    /\ responders[p].pc = "idle"
    /\ \E auth_request_id \in AuthRequestIds, data \in ResponderPayloads(p) :
         LET headers == ResponderSession(p) IN
         responders' = [responders EXCEPT ![p] =
            [pc |-> "read", id |-> auth_request_id, data |-> data, headers |-> headers,
             found |-> auth_request_find_by_uuid_and_user(auth_requests, auth_request_id,
                                                          headers.user.uuid)]]
    /\ UNCHANGED <<account_vars, auth_vars, sessions, last>>

\* Lines 1424-1480: the checks on the record held, then the save or the
\* delete on the store as it is now, and the response.
RespondWrite(p) ==
    /\ last = Idle
    /\ responders[p].pc = "read"
    /\ LET q == responders[p]
           attempted == respond(q.found, q.data, q.headers, auth_requests, now, 0).n
       IN  \E failAt \in 0..attempted :
           LET r == respond(q.found, q.data, q.headers, auth_requests, now, failAt)
               outcome == [approved |-> q.data.request_approved,
                           user_uuid |-> q.headers.user.uuid, data |-> q.data]
           IN  /\ auth_requests' = r.auth_requests
               /\ responded' = IF r.err = Ok /\ responded[q.id] = None
                                   THEN [responded EXCEPT ![q.id] = Some(outcome)]
                                   ELSE responded
               /\ responders' = [responders EXCEPT ![p] = [pc |-> "idle"]]
               /\ last' = [op |-> "put_auth_request", id |-> q.id,
                           data |-> q.data, headers |-> q.headers, failAt |-> failAt,
                           found |-> q.found, pre |-> auth_requests,
                           prior |-> responded[q.id],
                           err |-> r.err, notes |-> r.notes, steps |-> r.steps,
                           events |-> r.events]
    /\ UNCHANGED <<account_vars, next_auth_id, now, sessions>>

\* A request for the responders' user is created and stored while no
\* Respond is in flight: a Respond in flight on the new id has read it as
\* absent and fails whatever the store holds later.
CreateBetweenResponds ==
    /\ \A p \in Responders : responders[p].pc = "idle"
    /\ CreateAuthRequest
    /\ last'.err = Ok
    /\ last'.data.email = "a@x"

NextRace ==
    \/ CreateBetweenResponds
    \/ PurgeExpiredAuthRequests
    \/ Tick
    \/ Return
    \/ \E p \in Responders : RespondRead(p)
    \/ \E p \in Responders : RespondWrite(p)

SpecRace == InitAuth /\ [][NextRace]_vars

\* The request just answered is a Respond that read the record as pending.
AnsweredPending ==
    /\ last.op = "put_auth_request"
    /\ IsSome(last.found)
    /\ Unwrap(last.found).approved = None

\* C11: a responder that read the request as pending, and reaches its write
\* after another responder's approval or denial has been committed, fails
\* and leaves the store as that responder left it: the approval is not
\* overwritten and the deleted record is not persisted again.
C11_StaleResponderFails ==
    (AnsweredPending /\ IsSome(last.prior)) =>
        /\ last.err # Ok
        /\ auth_requests = last.pre

\* The stored auth requests.
Stored(reqs) == {Unwrap(reqs[i]) : i \in {j \in DOMAIN reqs : IsSome(reqs[j])}}

\* C12: no stored auth request has approved = Some(false): a successful
\* Respond with request_approved = false leaves no record under the id, and
\* a record that Respond has written has approved = Some(true).
C12_DenialNeverStored ==
    /\ \A r \in Stored(auth_requests) : r.approved # Some(FALSE)
    /\ last.op = "put_auth_request" =>
        /\ (last.err = Ok /\ ~last.data.request_approved)
               => auth_requests[last.id] = None
        /\ (IsSome(auth_requests[last.id]) /\ auth_requests[last.id] # last.pre[last.id])
               => Unwrap(auth_requests[last.id]).approved = Some(TRUE)

\* A pending request has been denied, and its record is gone.
C12_Witness ==
    /\ last.op = "put_auth_request"
    /\ last.err = Ok
    /\ ~last.data.request_approved
    /\ IsSome(last.pre[last.id])
    /\ auth_requests[last.id] = None

\* C13: a stored auth request has enc_key, response_device_id and
\* response_date set exactly when approved = Some(true), has
\* master_password_hash set only when approved = Some(true), and has all
\* four absent while it is pending.
C13_ResponseFieldsWithApproval ==
    \A r \in Stored(auth_requests) :
        /\ IsSome(r.enc_key) <=> r.approved = Some(TRUE)
        /\ IsSome(r.response_device_id) <=> r.approved = Some(TRUE)
        /\ IsSome(r.response_date) <=> r.approved = Some(TRUE)
        /\ IsSome(r.master_password_hash) => r.approved = Some(TRUE)
        /\ r.approved = None =>
               /\ r.enc_key = None
               /\ r.master_password_hash = None
               /\ r.response_device_id = None
               /\ r.response_date = None

\* An approval without a master password hash has been stored.
C13_Witness ==
    /\ last.op = "put_auth_request"
    /\ last.err = Ok
    /\ \E r \in Stored(auth_requests) :
        /\ r.uuid = last.id
        /\ r.approved = Some(TRUE)
        /\ IsSome(r.enc_key)
        /\ r.master_password_hash = None

\* The caller of the Respond just answered is the user who owns the
\* request, as authenticated.
CallerOwnsRequest ==
    /\ IsSome(last.pre[last.id])
    /\ Unwrap(last.pre[last.id]).user_uuid = last.headers.user.uuid

\* The caller's own device is the device the payload names.
CallerNamesOwnDevice == last.headers.device.uuid = last.data.device_identifier

\* C14: Respond changes the auth requests only when the caller owns the
\* request and its own device id equals the payload's device_identifier;
\* a request of another user, or a device-id mismatch, fails with
\* "AuthRequest doesn't exist", changes no request, sends no notification
\* and logs no event.
C14_OnlyOwnerOnOwnDevice ==
    last.op = "put_auth_request" =>
        /\ auth_requests # last.pre => (CallerOwnsRequest /\ CallerNamesOwnDevice)
        /\ ~(CallerOwnsRequest /\ CallerNamesOwnDevice) =>
               /\ last.err = ErrAuthRequestNotExist
               /\ RespondChangedNothing

\* The owner of a pending request has answered it from one device while
\* naming another in the payload.
C14_Witness ==
    /\ last.op = "put_auth_request"
    /\ CallerOwnsRequest
    /\ Unwrap(last.pre[last.id]).approved = None
    /\ ~CallerNamesOwnDevice
    /\ last.err = ErrAuthRequestNotExist

\* The email of the Create just answered is a user's, the device named is
\* that user's, and its stored type is the caller's.
CreateIsGenuine ==
    /\ last.data.email \in DOMAIN UsersByMail
    /\ last.data.device_identifier \in DOMAIN DeviceTable
    /\ DeviceTable[last.data.device_identifier].user_uuid = UsersByMail[last.data.email]
    /\ DeviceTable[last.data.device_identifier].atype = last.headers.device_type

\* C15: Create stores an auth request only if the email is an existing
\* user's, the device named belongs to that user and the device's stored
\* type equals the caller's; otherwise it fails with "AuthRequest doesn't
\* exist", stores nothing, sends no notification and logs no event.
C15_CreateOnlyGenuine ==
    last.op = "post_auth_request" =>
        /\ auth_requests # last.pre => CreateIsGenuine
        /\ ~CreateIsGenuine =>
               /\ last.err = ErrAuthRequestNotExist
               /\ RespondChangedNothing

\* A Create named a user and a device of that user, from a caller of
\* another device type.
C15_Witness ==
    /\ last.op = "post_auth_request"
    /\ last.data.email \in DOMAIN UsersByMail
    /\ last.data.device_identifier \in DOMAIN DeviceTable
    /\ DeviceTable[last.data.device_identifier].user_uuid = UsersByMail[last.data.email]
    /\ DeviceTable[last.data.device_identifier].atype # last.headers.device_type
    /\ last.err = ErrAuthRequestNotExist

\* What the poll just answered met under its id: a request of the caller's
\* device type, created from the caller's address with the caller's code.
PollMatches ==
    /\ IsSome(last.pre[last.id])
    /\ Unwrap(last.pre[last.id]).device_type = last.headers.device_type
    /\ Unwrap(last.pre[last.id]).request_ip = last.headers.ip
    /\ Unwrap(last.pre[last.id]).access_code = last.code

\* C16: GetAuthRequestByCode answers a caller with the one error
\* "AuthRequest doesn't exist" and no body when the id is not stored, the
\* device type differs, the source address differs or the code is wrong,
\* so two failing polls show the caller the same result whatever the
\* cause; it returns the request exactly when type, address and code all
\* match what was recorded at creation.
C16_PollFailuresAlike ==
    last.op = "get_auth_request_response" =>
        /\ PollMatches =>
               /\ last.err = Ok
               /\ last.body = Some(auth_request_json(last.id, Unwrap(last.pre[last.id])))
        /\ ~PollMatches =>
               /\ last.err = ErrAuthRequestNotExist
               /\ last.body = None

\* A poll with the right code and device type came from another address.
C16_Witness ==
    /\ last.op = "get_auth_request_response"
    /\ IsSome(last.pre[last.id])
    /\ Unwrap(last.pre[last.id]).device_type = last.headers.device_type
    /\ Unwrap(last.pre[last.id]).access_code = last.code
    /\ Unwrap(last.pre[last.id]).request_ip # last.headers.ip
    /\ last.err = ErrAuthRequestNotExist

\* The caller's pending requests in the store the request met.
PendingOf(user_uuid) ==
    {r \in Stored(last.pre) : r.user_uuid = user_uuid /\ r.approved = None}

\* C17: ListPendingAuthRequests returns exactly the stored auth requests of
\* the authenticated user that have approved = None, each once, and
\* neither it nor GetAuthRequestByCode changes a stored auth request.
C17_ListsPendingOnly ==
    /\ last.op = "get_auth_requests" =>
        LET data == Unwrap(last.body) IN
        /\ last.err = Ok
        /\ {data[k] : k \in DOMAIN data}
               = {auth_request_json(r.uuid, r) : r \in PendingOf(last.headers.user.uuid)}
        /\ Len(data) = Cardinality(PendingOf(last.headers.user.uuid))
        /\ auth_requests = last.pre
    /\ last.op = "get_auth_request_response" => auth_requests = last.pre

\* The caller listed its requests while the store held an approved request
\* of the caller.
C17_Witness ==
    /\ last.op = "get_auth_requests"
    /\ \E r \in Stored(last.pre) :
        r.user_uuid = last.headers.user.uuid /\ r.approved = Some(TRUE)

\* The stored request r is pending and older than the TTL at time t.
Expired(r, t) == r.approved = None /\ t - r.creation_date > AuthRequestTtl

\* The Respond just answered read the request as pending and found it
\* swept when it came to write: no Respond had been committed on the id.
WroteAfterSweep ==
    /\ AnsweredPending
    /\ last.pre[last.id] = None
    /\ last.prior = None

---------------------------------------------------------------------------
(* post_kdf                                                                *)

ErrPbkdf2Iterations == "PBKDF2 KDF iterations must be at least 100000."
ErrArgon2Iterations == "Argon2 KDF iterations must be at least 1."
ErrArgon2Memory == "Argon2 memory must be between 15 MB and 1024 MB."
ErrArgon2MemoryRequired == "Argon2 memory parameter is required."
ErrArgon2Parallelism == "Argon2 parallelism must be between 1 and 16."
ErrArgon2ParallelismRequired == "Argon2 parallelism parameter is required."

\* Lines 494-517: the KDF parameters are checked and assigned to the
\* handler's own copy of the user, field by field; an error ends the
\* handler with the copy as far as it was assigned.
kdf_parameters(u, data) ==
    IF data.kdf = Argon2id THEN
        IF data.kdf_iterations < 1 THEN [user |-> u, err |-> ErrArgon2Iterations]
        ELSE IF data.kdf_memory = None
            THEN [user |-> u, err |-> ErrArgon2MemoryRequired]
        ELSE IF ~(Unwrap(data.kdf_memory) \in 15..1024)
            THEN [user |-> u, err |-> ErrArgon2Memory]
        ELSE
        LET u1 == [u EXCEPT !.client_kdf_memory = data.kdf_memory] IN
        IF data.kdf_parallelism = None
            THEN [user |-> u1, err |-> ErrArgon2ParallelismRequired]
        ELSE IF ~(Unwrap(data.kdf_parallelism) \in 1..16)
            THEN [user |-> u1, err |-> ErrArgon2Parallelism]
        ELSE [user |-> [u1 EXCEPT !.client_kdf_parallelism = data.kdf_parallelism],
              err |-> Ok]
    ELSE [user |-> [u EXCEPT !.client_kdf_memory = None,
                             !.client_kdf_parallelism = None],
          err |-> Ok]

\* Lines 518-526: the rest of the copy is assigned, the copy is saved and
\* the logout is sent; the result is the save's.
save_kdf(st, u, data, headers) ==
    LET u1 == [u EXCEPT !.client_kdf_iter = data.kdf_iterations,
                        !.client_kdf_type = data.kdf]
        u2 == set_password(u1, data.new_master_password_hash, Some(data.key), TRUE, None)
    IN  send_logout(save_user(st, u2), u2, Some(headers.device))

\* Variant: the PBKDF2 floor itself is refused.
post_kdf_floor_exclusive(data, headers, db, failAt) ==
    LET st == start(db, failAt) IN
    IF ~check_valid_password(headers.user, data.master_password_hash)
        THEN [st EXCEPT !.err = ErrInvalidPassword]
    ELSE IF data.kdf = Pbkdf2 /\ data.kdf_iterations <= 100000
        THEN [st EXCEPT !.err = ErrPbkdf2Iterations]
    ELSE
    LET checked == kdf_parameters(headers.user, data) IN
    IF checked.err # Ok THEN [st EXCEPT !.err = checked.err]
    ELSE save_kdf(st, checked.user, data, headers)

\* Variant: the copy is saved as far as it was assigned when a parameter
\* is refused.
post_kdf_saves_refused(data, headers, db, failAt) ==
    LET st == start(db, failAt) IN
    IF ~check_valid_password(headers.user, data.master_password_hash)
        THEN [st EXCEPT !.err = ErrInvalidPassword]
    ELSE IF data.kdf = Pbkdf2 /\ data.kdf_iterations < 100000
        THEN [st EXCEPT !.err = ErrPbkdf2Iterations]
    ELSE
    LET checked == kdf_parameters(headers.user, data) IN
    IF checked.err # Ok
        THEN [save_user(st, checked.user) EXCEPT !.err = checked.err]
    ELSE save_kdf(st, checked.user, data, headers)

post_kdf(data, headers, db, failAt) ==
    LET st == start(db, failAt) IN
    IF ~check_valid_password(headers.user, data.master_password_hash)
        THEN [st EXCEPT !.err = ErrInvalidPassword]
    ELSE IF data.kdf = Pbkdf2 /\ data.kdf_iterations < 100000
        THEN [st EXCEPT !.err = ErrPbkdf2Iterations]
    ELSE
    LET checked == kdf_parameters(headers.user, data) IN
    IF checked.err # Ok THEN [st EXCEPT !.err = checked.err]
    ELSE save_kdf(st, checked.user, data, headers)

\* The payloads: each KDF type of the client and one it does not know, and
\* the values on both sides of every floor and ceiling.
ChangeKdfData ==
    [kdf : {Pbkdf2, Argon2id, 2},
     kdf_iterations : {0, 1, 99999, 100000},
     kdf_memory : Option({14, 15, 1024, 1025}),
     kdf_parallelism : Option({0, 1, 16, 17}),
     master_password_hash : MasterHashes,
     new_master_password_hash : {"mh1"},
     key : {B1}]

\* An account with nothing but its user record.
InitKdf ==
    /\ InitUser
    /\ folders = [i \in FolderIds |-> None]
    /\ emergency_access = [i \in EmergencyAccessIds |-> None]
    /\ memberships = [i \in OrganizationIds |-> None]
    /\ sends = [i \in SendIds |-> None]
    /\ ciphers = [i \in CipherIds |-> None]
    /\ devices = Devices
    /\ NoInvitations
    /\ NoAuthRequests
    /\ last = Idle

ChangeKdf ==
    /\ last = Idle
    /\ user.security_stamp < MaxStamp
    /\ \E data \in ChangeKdfData, device \in devices :
         LET headers == [user |-> user, device |-> device]
             attempted == post_kdf(data, headers, Db, 0).n
         IN  \E failAt \in 0..attempted :
             \E r \in {post_kdf(data, headers, Db, failAt)} :
                 /\ user' = r.user
                 /\ last' = [op |-> "post_kdf", data |-> data, headers |-> headers,
                             failAt |-> failAt, pre |-> Db,
                             err |-> r.err, writes |-> r.writes, notes |-> r.notes,
                             steps |-> r.steps]
    /\ UNCHANGED <<folders, emergency_access, memberships, sends, ciphers, devices,
                   invitations, invited_memberships,
                   auth_vars, race_vars>>

NextKdf ==
    \/ ChangeKdf
    \/ Return

SpecKdf == InitKdf /\ [][NextKdf]_vars

\* The request just answered is a ChangeKdf.
ChangedKdf == last.op = "post_kdf"

\* The errors with which post_kdf refuses KDF parameters.
KdfParameterErrors ==
    {ErrPbkdf2Iterations, ErrArgon2Iterations, ErrArgon2Memory,
     ErrArgon2MemoryRequired, ErrArgon2Parallelism, ErrArgon2ParallelismRequired}

KdfRejected == last.err \in KdfParameterErrors

\* The payload's current password is the stored user's.
KdfPasswordCorrect ==
    last.pre.user.password_hash = hash_password(last.data.master_password_hash)

Absent(o) == o = None

Outside(o, low, high) == o # None /\ (o[1] < low \/ o[1] > high)

\* C19: with a correct current password, ChangeKdf refuses Argon2id
\* exactly when iterations < 1, memory is absent or outside [15,1024], or
\* parallelism is absent or outside [1,16], and refuses PBKDF2 exactly when
\* iterations < 100000; the values at the floors and ceilings are accepted.
C19_KdfFloors ==
    (ChangedKdf /\ KdfPasswordCorrect) =>
        /\ last.data.kdf = Argon2id =>
            (KdfRejected <=>
                \/ last.data.kdf_iterations < 1
                \/ Absent(last.data.kdf_memory)
                \/ Outside(last.data.kdf_memory, 15, 1024)
                \/ Absent(last.data.kdf_parallelism)
                \/ Outside(last.data.kdf_parallelism, 1, 16))
        /\ last.data.kdf = Pbkdf2 =>
            (KdfRejected <=> last.data.kdf_iterations < 100000)
        /\ (~KdfRejected /\ last.failAt = 0) => last.err = Ok

\* Argon2id has been accepted with one iteration, the least memory and
\* the most parallelism, and is now the stored user's KDF.
C19_Witness ==
    /\ ChangedKdf
    /\ last.data.kdf = Argon2id
    /\ last.data.kdf_iterations = 1
    /\ last.data.kdf_memory = Some(15)
    /\ last.data.kdf_parallelism = Some(16)
    /\ last.err = Ok
    /\ user.client_kdf_type = Argon2id
    /\ user.client_kdf_memory = Some(15)

\* C20: a ChangeKdf refused for a wrong current password or for a KDF
\* parameter leaves the stored user as it was (KDF type, iterations,
\* memory, parallelism, password hash, encrypted key and security stamp
\* among the rest), writes nothing and sends no logout, also when the
\* memory is valid and the parallelism is not.
C20_RefusedKdfChangesNothing ==
    (ChangedKdf /\ (KdfRejected \/ last.err = ErrInvalidPassword)) =>
        /\ user = last.pre.user
        /\ last.writes = <<>>
        /\ last.notes = <<>>

\* Argon2id was refused for its parallelism, with a valid memory that is
\* not the stored one.
C20_Witness ==
    /\ ChangedKdf
    /\ last.data.kdf = Argon2id
    /\ last.data.kdf_memory = Some(15)
    /\ last.pre.user.client_kdf_memory # Some(15)
    /\ last.err = ErrArgon2Parallelism
    /\ user = last.pre.user

---------------------------------------------------------------------------
(* Password hints, the configuration and post_password                     *)

\* A String is the sequence of its characters.
Whitespace == {" "}

\* str::trim, from the start and from the end.
RECURSIVE trim_start(_)
trim_start(s) ==
    IF s # <<>> /\ Head(s) \in Whitespace THEN trim_start(Tail(s)) ELSE s

RECURSIVE trim_end(_)
trim_end(s) ==
    IF s # <<>> /\ s[Len(s)] \in Whitespace
        THEN trim_end(SubSeq(s, 1, Len(s) - 1)) ELSE s

trim(s) == trim_end(trim_start(s))

\* Variant: only leading whitespace is removed.
clean_password_hint_trims_start_only(password_hint) ==
    IF password_hint = None THEN None
    ELSE IF trim_start(Unwrap(password_hint)) = <<>> THEN None
    ELSE Some(trim_start(Unwrap(password_hint)))

\* Trims whitespace from password hints, and converts blank password hints
\* to None.
clean_password_hint(password_hint) ==
    IF password_hint = None THEN None
    ELSE IF trim(Unwrap(password_hint)) = <<>> THEN None
    ELSE Some(trim(Unwrap(password_hint)))

ErrHintsDisabled ==
    "Password hints have been disabled by the administrator. Remove the hint and try again."

\* CONFIG as the handler reads it while it answers one request.
Config ==
    [password_hints_allowed : BOOLEAN, mail_enabled : BOOLEAN,
     show_password_hint : BOOLEAN]

enforce_password_hint_setting(password_hint, config) ==
    IF IsSome(password_hint) /\ ~config.password_hints_allowed
        THEN ErrHintsDisabled ELSE Ok

\* The routes post_password lets the old security stamp call once more.
PasswordRoutes ==
    <<"post_rotatekey", "get_contacts", "get_public_keys", "get_api_webauthn">>

\* The atype of a stored device.
device_atype(device) == DeviceTable[device].atype

\* Variant: the save's result is dropped and the handler answers Ok.
save_password_drops_result(st, u, data, headers) ==
    LET s1 == log_user_event(st, "UserChangedPassword", u.uuid,
                             device_atype(headers.device))
        u1 == set_password(u, data.new_master_password_hash, Some(data.key), TRUE,
                           Some(PasswordRoutes))
    IN  [send_logout(save_user(s1, u1), u1, Some(headers.device)) EXCEPT !.err = Ok]

\* Variant: the logout is sent before the user is saved.
save_password_logout_first(st, u, data, headers) ==
    LET s1 == log_user_event(st, "UserChangedPassword", u.uuid,
                             device_atype(headers.device))
        u1 == set_password(u, data.new_master_password_hash, Some(data.key), TRUE,
                           Some(PasswordRoutes))
    IN  save_user(send_logout(s1, u1, Some(headers.device)), u1)

\* Lines 444-466: the event is logged, the password is set on the
\* handler's copy, the copy is saved and the logout is sent; the result is
\* the save's.
save_password(st, u, data, headers) ==
    LET s1 == log_user_event(st, "UserChangedPassword", u.uuid,
                             device_atype(headers.device))
        u1 == set_password(u, data.new_master_password_hash, Some(data.key), TRUE,
                           Some(PasswordRoutes))
    IN  send_logout(save_user(s1, u1), u1, Some(headers.device))

\* Variant: the copy with the cleaned hint is saved before the hint setting
\* is enforced.
post_password_saves_hint_first(data, headers, config, db, failAt) ==
    LET st == start(db, failAt) IN
    IF ~check_valid_password(headers.user, data.master_password_hash)
        THEN [st EXCEPT !.err = ErrInvalidPassword]
    ELSE
    LET u == [headers.user EXCEPT
                 !.password_hint = clean_password_hint(data.master_password_hint)]
        allowed == enforce_password_hint_setting(u.password_hint, config)
    IN  IF allowed # Ok THEN [save_user(st, u) EXCEPT !.err = allowed]
        ELSE save_password(st, u, data, headers)

post_password(data, headers, config, db, failAt) ==
    LET st == start(db, failAt) IN
    IF ~check_valid_password(headers.user, data.master_password_hash)
        THEN [st EXCEPT !.err = ErrInvalidPassword]
    ELSE
    LET u == [headers.user EXCEPT
                 !.password_hint = clean_password_hint(data.master_password_hint)]
        allowed == enforce_password_hint_setting(u.password_hint, config)
    IN  IF allowed # Ok THEN [st EXCEPT !.err = allowed]
        ELSE save_password(st, u, data, headers)

---------------------------------------------------------------------------
(* post_sstamp                                                             *)

ErrNoValidation == "No validation provided"
ErrInvalidOtp == "Invalid token"

\* PasswordOrOtpData::validate: the master-password hash alone is checked
\* against the stored hash, the one-time token alone against the pending
\* protected action; anything else is refused.
validate(data, u, otp_valid) ==
    IF IsSome(data.master_password_hash) /\ data.otp = None
        THEN IF check_valid_password(u, Unwrap(data.master_password_hash))
                THEN Ok ELSE ErrInvalidPassword
    ELSE IF data.master_password_hash = None /\ IsSome(data.otp)
        THEN IF otp_valid THEN Ok ELSE ErrInvalidOtp
    ELSE ErrNoValidation

\* Device::delete_all_by_user(&user.uuid, &mut conn).await?: one store
\* write that removes every Device record of the user.
delete_all_by_user(st, user_uuid) ==
    IF st.n + 1 = st.failAt
        THEN [st EXCEPT !.n = @ + 1, !.err = ErrDb]
        ELSE [st EXCEPT !.n = @ + 1, !.devices = {},
                        !.writes = Append(@, [family |-> "devices", id |-> user_uuid])]

post_sstamp(data, headers, otp_valid, db, failAt) ==
    LET st == start(db, failAt)
        valid == validate(data, headers.user, otp_valid)
    IN  IF valid # Ok THEN [st EXCEPT !.err = valid]
        ELSE LET s1 == delete_all_by_user(st, headers.user.uuid) IN
             IF s1.err # Ok THEN s1
             ELSE LET u1 == reset_security_stamp(headers.user)
                  IN  send_logout(save_user(s1, u1), u1, None)

---------------------------------------------------------------------------
(* The credential handlers as a state machine                              *)

\* The hints a client can send: blank ones and ones with text.
HintStrings == {<<>>, <<" ">>, <<"h">>, <<" ", "h">>, <<"h", " ">>, <<" ", "h", " ">>}

ChangePassData ==
    [master_password_hash : MasterHashes,
     new_master_password_hash : {"mh1"},
     master_password_hint : Option(HintStrings),
     key : {B1}]

PasswordOrOtpData ==
    [master_password_hash : Option(MasterHashes), otp : Option({"otp"})]

\* An account with nothing but its user record and its devices; the user
\* has a password hint or none.
InitAccount ==
    /\ \E kdf \in StoredKdfs, pk \in Option({"pk1"}), hint \in Option({<<"h">>}) :
          user = [RegisteredUser(kdf, pk) EXCEPT !.password_hint = hint]
    /\ folders = [i \in FolderIds |-> None]
    /\ emergency_access = [i \in EmergencyAccessIds |-> None]
    /\ memberships = [i \in OrganizationIds |-> None]
    /\ sends = [i \in SendIds |-> None]
    /\ ciphers = [i \in CipherIds |-> None]
    /\ devices = Devices
    /\ NoInvitations
    /\ NoAuthRequests
    /\ last = Idle

ChangePassword ==
    /\ last = Idle
    /\ user.security_stamp < MaxStamp
    /\ \E data \in ChangePassData, device \in devices, config \in Config :
         LET headers == [user |-> user, device |-> device]
             attempted == post_password(data, headers, config, Db, 0).n
         IN  \E failAt \in 0..attempted :
             \E r \in {post_password(data, headers, config, Db, failAt)} :
                 /\ user' = r.user
                 /\ last' = [op |-> "post_password", data |-> data, headers |-> headers,
                             config |-> config, failAt |-> failAt, pre |-> Db,
                             err |-> r.err, writes |-> r.writes, notes |-> r.notes,
                             steps |-> r.steps, events |-> r.events]
    /\ UNCHANGED <<folders, emergency_access, memberships, sends, ciphers, devices,
                   invitations, invited_memberships,
                   auth_vars, race_vars>>

ResetSecurityStamp ==
    /\ last = Idle
    /\ user.security_stamp < MaxStamp
    /\ \E data \in PasswordOrOtpData, device \in devices, otp_valid \in BOOLEAN :
         LET headers == [user |-> user, device |-> device]
             attempted == post_sstamp(data, headers, otp_valid, Db, 0).n
         IN  \E failAt \in 0..attempted :
             \E r \in {post_sstamp(data, headers, otp_valid, Db, failAt)} :
                 /\ user' = r.user
                 /\ devices' = r.devices
                 /\ last' = [op |-> "post_sstamp", data |-> data, headers |-> headers,
                             otp_valid |-> otp_valid, failAt |-> failAt, pre |-> Db,
                             err |-> r.err, writes |-> r.writes, notes |-> r.notes,
                             steps |-> r.steps]
    /\ UNCHANGED <<folders, emergency_access, memberships, sends, ciphers,
                   invitations, invited_memberships,
                   auth_vars, race_vars>>

NextAccount ==
    \/ ChangePassword
    \/ ChangeKdf
    \/ RotateRefused
    \/ RotateAccountKeys
    \/ ResetSecurityStamp
    \/ Return

SpecAccount == InitAccount /\ [][NextAccount]_vars

---------------------------------------------------------------------------
(* register                                                                *)

ErrNameTooLong == "The field Name must be a string with a maximum length of 50."
ErrRegistration == "Registration not allowed or user already exists"

\* str::to_lowercase on the addresses of the model.
to_lowercase(email) == IF email = "A@x" THEN "a@x" ELSE email

\* User::new(email): no password yet, and the default KDF.
User_new(email) ==
    [uuid |-> "u1", email |-> email,
     password_hash |-> <<>>, akey |-> "",
     private_key |-> None, public_key |-> None,
     client_kdf_type |-> Pbkdf2, client_kdf_iter |-> 600000,
     client_kdf_memory |-> None, client_kdf_parallelism |-> None,
     password_hint |-> None,
     email_new |-> None, email_new_token |-> None, verified_at |-> None,
     security_stamp |-> 0, stamp_exception |-> None]

\* User::find_by_mail on the store of the one account.
find_user_by_mail(db, email) ==
    IF db.user.email = email THEN Some(db.user) ELSE None

\* Lines 272-294: the payload's KDF fields, password, hint and keys are
\* assigned to the user as they come.
register_assign(u, data, password_hint) ==
    LET u1 == IF IsSome(data.kdf)
                 THEN [u EXCEPT !.client_kdf_type = Unwrap(data.kdf)] ELSE u
        u2 == IF IsSome(data.kdf_iterations)
                 THEN [u1 EXCEPT !.client_kdf_iter = Unwrap(data.kdf_iterations)] ELSE u1
        u3 == [u2 EXCEPT !.client_kdf_memory = data.kdf_memory,
                         !.client_kdf_parallelism = data.kdf_parallelism]
        u4 == set_password(u3, data.master_password_hash, Some(data.key), TRUE, None)
        u5 == [u4 EXCEPT !.password_hint = password_hint]
    IN  IF IsSome(data.keys)
            THEN [u5 EXCEPT !.private_key = Some(Unwrap(data.keys).encrypted_private_key),
                            !.public_key = Some(Unwrap(data.keys).public_key)]
            ELSE u5

\* Lines 296-298: a valid invite token for the address verifies it.
verify(u, email_verified, t) ==
    IF email_verified THEN [u EXCEPT !.verified_at = Some(t)] ELSE u

ErrInviteEmail == "Registration email does not match invite email"
ErrInvalidInvite == "Invalid claim"

\* The invite tokens of the model: one issued for each address, and one
\* that does not decode.
InviteTokens == {"invite:a@x", "invite:c@x", "garbage"}

\* decode_invite(&token)?: the claims of the token, or an error.
decode_invite(token) ==
    IF token = "invite:a@x" THEN [err |-> Ok, email |-> "a@x"]
    ELSE IF token = "invite:c@x" THEN [err |-> Ok, email |-> "c@x"]
    ELSE [err |-> ErrInvalidInvite, email |-> ""]

\* Invitation::take(&email, &mut conn): the pending invitation of the
\* address is removed; the call is true when there was one.
Invitation_take(st, email) == [st EXCEPT !.invitations = @ \ {email}]

\* Lines 240-243: each invited membership of the user is accepted and
\* saved, in the order of the organizations.
RECURSIVE accept_memberships(_, _)
accept_memberships(st, invited) ==
    IF invited = {} \/ st.err # Ok THEN st
    ELSE LET o == CHOOSE x \in invited : \A y \in invited : x <= y
             s1 == IF st.n + 1 = st.failAt
                       THEN [st EXCEPT !.n = @ + 1, !.err = ErrDb]
                       ELSE [st EXCEPT !.n = @ + 1,
                                       !.invited_memberships = @ \ {o},
                                       !.writes = Append(@, [family |-> "membership.status",
                                                             id |-> o])]
         IN  accept_memberships(s1, invited \ {o})

\* Variant: an invitation admits whoever holds the address, a user with a
\* password included.
admit_registrant_whatever_password(st, found, email, data, config, emergency_invited) ==
    IF IsSome(found) THEN
        IF IsSome(data.org_invite_token) THEN
            LET claims == decode_invite(Unwrap(data.org_invite_token)) IN
            IF claims.err # Ok THEN [st EXCEPT !.err = claims.err]
            ELSE IF claims.email = email THEN st
            ELSE [st EXCEPT !.err = ErrInviteEmail]
        ELSE IF email \in st.invitations
            THEN accept_memberships(Invitation_take(st, email), st.invited_memberships)
        ELSE IF Unwrap(found).password_hash # <<>>
            THEN [st EXCEPT !.err = ErrRegistration]
        ELSE IF config.signup_allowed \/ emergency_invited THEN st
        ELSE [st EXCEPT !.err = ErrRegistration]
    ELSE IF email \in st.invitations \/ config.signup_allowed
        THEN Invitation_take(st, email)
    ELSE [st EXCEPT !.err = ErrRegistration]

\* Lines 224-267: who may register.  A user with a password never; an
\* invited user without one by an invite token for the address, by a
\* pending invitation (taken here, the invited memberships accepted), by
\* open signups or as an invited emergency-access grantee; an address of
\* no user by a pending invitation (taken here) or open signups.
admit_registrant(st, found, email, data, config, emergency_invited) ==
    IF IsSome(found) THEN
        IF Unwrap(found).password_hash # <<>>
            THEN [st EXCEPT !.err = ErrRegistration]
        ELSE IF IsSome(data.org_invite_token) THEN
            LET claims == decode_invite(Unwrap(data.org_invite_token)) IN
            IF claims.err # Ok THEN [st EXCEPT !.err = claims.err]
            ELSE IF claims.email = email THEN st
            ELSE [st EXCEPT !.err = ErrInviteEmail]
        ELSE IF email \in st.invitations
            THEN accept_memberships(Invitation_take(st, email), st.invited_memberships)
        ELSE IF config.signup_allowed \/ emergency_invited THEN st
        ELSE [st EXCEPT !.err = ErrRegistration]
    ELSE IF email \in st.invitations \/ config.signup_allowed
        THEN Invitation_take(st, email)
    ELSE [st EXCEPT !.err = ErrRegistration]

\* Variant: the invitation is taken before the name and the hint are
\* checked.
register_takes_invitation_first(data, config, emergency_invited, db, t, failAt) ==
    LET st == start(db, failAt)
        email == to_lowercase(data.email)
        password_hint == clean_password_hint(data.master_password_hint)
        allowed == enforce_password_hint_setting(password_hint, config)
        found == find_user_by_mail(db, email)
        s1 == admit_registrant(st, found, email, data, config, emergency_invited)
    IN  IF s1.err # Ok THEN s1
        ELSE IF IsSome(data.name) /\ Unwrap(data.name) > 50
            THEN [s1 EXCEPT !.err = ErrNameTooLong]
        ELSE IF allowed # Ok THEN [s1 EXCEPT !.err = allowed]
        ELSE LET u == IF IsSome(found) THEN Unwrap(found) ELSE User_new(email)
                 email_verified == IsSome(found) /\ IsSome(data.org_invite_token)
             IN  save_user(Invitation_take(s1, email),
                           verify(register_assign(u, data, password_hint),
                                  email_verified, t))

\* register, which is _register without email verification (so that no
\* emergency-access token is pending, 148-209).  The name is given by its
\* length; emergency_invited tells whether the address is an invited
\* emergency-access grantee (246-248); t is Utc::now().  The welcome mail
\* (300-313) and the acceptance of emergency invites (318-322) cannot fail
\* the request and write nothing of the store modelled here.
register(data, config, emergency_invited, db, t, failAt) ==
    LET st == start(db, failAt)
        email == to_lowercase(data.email)
        password_hint == clean_password_hint(data.master_password_hint)
        allowed == enforce_password_hint_setting(password_hint, config)
        found == find_user_by_mail(db, email)
    IN  IF IsSome(data.name) /\ Unwrap(data.name) > 50
            THEN [st EXCEPT !.err = ErrNameTooLong]
        ELSE IF allowed # Ok THEN [st EXCEPT !.err = allowed]
        ELSE
        LET s1 == admit_registrant(st, found, email, data, config, emergency_invited) IN
        IF s1.err # Ok THEN s1
        ELSE LET u == IF IsSome(found) THEN Unwrap(found) ELSE User_new(email)
                 email_verified == IsSome(found) /\ IsSome(data.org_invite_token)
             IN  save_user(Invitation_take(s1, email),
                           verify(register_assign(u, data, password_hint),
                                  email_verified, t))

KeysData == [encrypted_private_key : {B1}, public_key : {"pk1"}]

\* The payloads: each KDF field present or absent, independently.
RegisterData ==
    [email : {"a@x", "A@x"},
     kdf : Option({Pbkdf2, Argon2id}),
     kdf_iterations : Option({3}),
     kdf_memory : Option({64}),
     kdf_parallelism : Option({4}),
     key : {B1},
     keys : Option(KeysData),
     master_password_hash : {"mh0"},
     master_password_hint : Option({<<" ">>, <<"h">>}),
     name : Option({50, 51}),
     org_invite_token : {None}]

\* The configuration a registration meets: hints allowed or not, signups
\* open or not, no mail.
RegisterConfig ==
    [password_hints_allowed : BOOLEAN, mail_enabled : {FALSE},
     show_password_hint : {FALSE}, signup_allowed : BOOLEAN]

\* The accounts of InitAccount, and one whose user has been invited and has
\* not registered yet.
InitRegister ==
    /\ \/ \E kdf \in StoredKdfs, pk \in Option({"pk1"}) : user = RegisteredUser(kdf, pk)
       \/ user = User_new("a@x")
    /\ folders = [i \in FolderIds |-> None]
    /\ emergency_access = [i \in EmergencyAccessIds |-> None]
    /\ memberships = [i \in OrganizationIds |-> None]
    /\ sends = [i \in SendIds |-> None]
    /\ ciphers = [i \in CipherIds |-> None]
    /\ devices = Devices
    /\ NoInvitations
    /\ NoAuthRequests
    /\ last = Idle

\* The user has a password, so that its devices can hold a session.
Registered == user.password_hash # <<>>

\* One registration request, answered on the current store.  The store
\* holds one account: a registration that creates a second one is outside
\* it, so a request for an address of no user is followed only when it is
\* refused.
RegisterRequest(data, config, emergency_invited) ==
    LET attempted == register(data, config, emergency_invited, Db, now, 0).n IN
    \E failAt \in 0..attempted :
    \E r \in {register(data, config, emergency_invited, Db, now, failAt)} :
        /\ to_lowercase(data.email) = user.email \/ r.err # Ok
        /\ user' = r.user
        /\ invitations' = r.invitations
        /\ invited_memberships' = r.invited_memberships
        /\ last' = [op |-> "register", data |-> data, config |-> config,
                    emergency_invited |-> emergency_invited,
                    failAt |-> failAt, pre |-> Db,
                    err |-> r.err, writes |-> r.writes, notes |-> r.notes]
        /\ UNCHANGED <<folders, emergency_access, memberships, sends, ciphers, devices,
                       auth_vars, race_vars>>

Register ==
    /\ last = Idle
    /\ user.security_stamp < MaxStamp
    /\ \E data \in RegisterData, config \in RegisterConfig :
         RegisterRequest(data, config, FALSE)

NextRegister ==
    \/ Register
    \/ Registered /\ ChangeKdf
    \/ Registered /\ RotateRefused
    \/ Registered /\ RotateAccountKeys
    \/ Return

SpecRegister == InitRegister /\ [][NextRegister]_vars

---------------------------------------------------------------------------
(* password_hint                                                           *)

ErrNotConfigured == "This server is not configured to provide password hints."
NO_HINT == "Sorry, you have no password hint..."
ErrHintShown == "Your password hint is: {hint}"
ErrMail == "Error sending email"

\* The jitter of the delay, in milliseconds.
delta == 100

\* What the caller gets (err; shown is the hint formatted into the error
\* text), how long the handler slept before it answered, the mails it
\* sent and how many users it looked up.
hint_answer(err, shown, sleep_ms, mails, lookups) ==
    [err |-> err, shown |-> shown, sleep_ms |-> sleep_ms, mails |-> mails,
     lookups |-> lookups]

\* mail::send_password_hint(email, hint).await?: the mail goes out, or the
\* transport's error ends the handler.
send_password_hint(email, hint, mail_ok) ==
    IF mail_ok
        THEN hint_answer(Ok, None, None, <<[to |-> email, hint |-> hint]>>, 1)
        ELSE hint_answer(ErrMail, None, None, <<>>, 1)

\* Variant: hints are shown in the error text without the opt-in.
password_hint_without_opt_in(data, config, db, jitter, mail_ok) ==
    IF ~config.password_hints_allowed
        THEN hint_answer(ErrNotConfigured, None, None, <<>>, 0)
    ELSE
    LET found == find_user_by_mail(db, data.email) IN
    IF found = None THEN
        IF config.mail_enabled
            THEN hint_answer(Ok, None, Some(1000 + jitter), <<>>, 1)
            ELSE hint_answer(NO_HINT, None, None, <<>>, 1)
    ELSE
    LET hint == Unwrap(found).password_hint IN
    IF config.mail_enabled THEN send_password_hint(data.email, hint, mail_ok)
    ELSE IF IsSome(hint) THEN hint_answer(ErrHintShown, hint, None, <<>>, 1)
    ELSE hint_answer(NO_HINT, None, None, <<>>, 1)

\* Variant: the jitter is drawn from twice the range.
password_hint_wider_jitter(data, config, db, jitter, mail_ok) ==
    IF ~config.password_hints_allowed
       \/ (~config.mail_enabled /\ ~config.show_password_hint)
        THEN hint_answer(ErrNotConfigured, None, None, <<>>, 0)
    ELSE
    LET found == find_user_by_mail(db, data.email) IN
    IF found = None THEN
        IF config.mail_enabled
            THEN hint_answer(Ok, None, Some(1000 + 2 * jitter), <<>>, 1)
            ELSE hint_answer(NO_HINT, None, None, <<>>, 1)
    ELSE
    LET hint == Unwrap(found).password_hint IN
    IF config.mail_enabled THEN send_password_hint(data.email, hint, mail_ok)
    ELSE IF IsSome(hint) THEN hint_answer(ErrHintShown, hint, None, <<>>, 1)
    ELSE hint_answer(NO_HINT, None, None, <<>>, 1)

\* jitter is what rng.random_range(-delta..=delta) returns; the sum lies in
\* 900..1100, so the cast to u64 keeps it.
password_hint(data, config, db, jitter, mail_ok) ==
    IF ~config.password_hints_allowed
       \/ (~config.mail_enabled /\ ~config.show_password_hint)
        THEN hint_answer(ErrNotConfigured, None, None, <<>>, 0)
    ELSE
    LET found == find_user_by_mail(db, data.email) IN
    IF found = None THEN
        IF config.mail_enabled
            THEN hint_answer(Ok, None, Some(1000 + jitter), <<>>, 1)
            ELSE hint_answer(NO_HINT, None, None, <<>>, 1)
    ELSE
    LET hint == Unwrap(found).password_hint IN
    IF config.mail_enabled THEN send_password_hint(data.email, hint, mail_ok)
    ELSE IF IsSome(hint) THEN hint_answer(ErrHintShown, hint, None, <<>>, 1)
    ELSE hint_answer(NO_HINT, None, None, <<>>, 1)

PasswordHintData == [email : Emails]

\* The lookup reads the store and leaves it as it is.
PasswordHint ==
    /\ last = Idle
    /\ \E data \in PasswordHintData, config \in Config,
          jitter \in (0 - delta)..delta, mail_ok \in BOOLEAN :
         \E r \in {password_hint(data, config, Db, jitter, mail_ok)} :
             last' = [op |-> "password_hint", data |-> data, config |-> config,
                      jitter |-> jitter, mail_ok |-> mail_ok, pre |-> Db,
                      err |-> r.err, shown |-> r.shown, sleep_ms |-> r.sleep_ms,
                      mails |-> r.mails, lookups |-> r.lookups]
    /\ UNCHANGED <<account_vars, auth_vars, race_vars>>

NextHint ==
    \/ PasswordHint
    \/ Return

SpecHint == InitAccount /\ [][NextHint]_vars

---------------------------------------------------------------------------
(* Credential changes: what the properties speak about                     *)

\* The request just answered is a ChangePassword, a ChangeKdf or a
\* RotateAccountKeys.
CredentialChange == last.op \in {"post_password", "post_kdf", "post_rotatekey"}

\* The master-password hash the request asks to be stored.
RequestedHash ==
    IF last.op = "post_rotatekey"
        THEN last.data.account_unlock_data.master_password_unlock_data
                 .master_key_authentication_hash
        ELSE last.data.new_master_password_hash

\* The request came to user.save / the store took the user record.
UserSaveAttempted == \E i \in DOMAIN last.steps : last.steps[i].step = "user.save"

UserSaved == \E i \in DOMAIN last.writes : last.writes[i].family = "user"

KdfSelfConsistent(u) ==
    /\ u.client_kdf_type \in {Pbkdf2, Argon2id}
    /\ u.client_kdf_type = Argon2id =>
          (IsSome(u.client_kdf_memory) /\ IsSome(u.client_kdf_parallelism))
    /\ u.client_kdf_type = Pbkdf2 =>
          (u.client_kdf_memory = None /\ u.client_kdf_parallelism = None)

\* C21: in every state reached by registrations, ChangeKdf and
\* RotateAccountKeys the stored user's KDF type is PBKDF2 or Argon2id, with
\* memory and parallelism both present for Argon2id and both absent for
\* PBKDF2.
C21_KdfSelfConsistent == KdfSelfConsistent(user)

\* C22: a ChangePassword, ChangeKdf or RotateAccountKeys that answers Ok
\* has saved the user record with the requested password hash and a new
\* security stamp; when the save of the user is refused the answer is the
\* save's error and the stored user is the old one.
C22_SuccessOnlyAfterSave ==
    CredentialChange =>
        /\ last.err = Ok =>
              /\ UserSaved
              /\ user.password_hash = hash_password(RequestedHash)
              /\ user.security_stamp # last.pre.user.security_stamp
        /\ (UserSaveAttempted /\ ~UserSaved) =>
              /\ last.err = ErrDb
              /\ user = last.pre.user

\* A ChangePassword whose user save the store refused.
C22_Witness ==
    /\ last.op = "post_password"
    /\ UserSaveAttempted
    /\ ~UserSaved
    /\ last.err = ErrDb
    /\ user.password_hash # hash_password(RequestedHash)

\* The logouts the request sent, in order.
Logouts == SelectSeq(last.steps, LAMBDA s : s.step = "send_logout")

\* C23: ChangePassword, ChangeKdf and RotateAccountKeys send at most one
\* logout, and exactly one once they have come to save the user, after
\* the save has been attempted (refused or not); it excludes the device
\* the request came from and reaches every other device of the user.
C23_LogoutExcludesInitiator ==
    CredentialChange =>
        /\ Len(Logouts) = (IF UserSaveAttempted THEN 1 ELSE 0)
        /\ Len(last.notes) = Len(Logouts)
        /\ UserSaveAttempted =>
              /\ last.steps[Len(last.steps) - 1].step = "user.save"
              /\ last.steps[Len(last.steps)].step = "send_logout"
              /\ last.notes[1] = [type |-> "logout", id |-> last.pre.user.uuid,
                                  ut |-> Some(last.headers.device)]
              /\ Logouts[1].to = last.pre.devices \ {last.headers.device}

\* A ChangeKdf from d2 whose save was refused: d1 alone is logged out.
C23_Witness ==
    /\ last.op = "post_kdf"
    /\ last.headers.device = "d2"
    /\ last.err = ErrDb
    /\ Len(Logouts) = 1
    /\ Logouts[1].to = {"d1"}

\* C24: a security-stamp reset that answers Ok leaves the user's stored
\* Device records as they were and changes the security stamp.
C24_SstampKeepsDevices ==
    (last.op = "post_sstamp" /\ last.err = Ok) =>
        /\ devices = last.pre.devices
        /\ user.security_stamp # last.pre.user.security_stamp

---------------------------------------------------------------------------
(* Password hints: what the properties speak about                         *)

Hinted == last.op = "password_hint"

\* The address is no user's / is a user's who has no hint.
Nonexistent == last.data.email # last.pre.user.email

ExistsWithoutHint ==
    /\ last.data.email = last.pre.user.email
    /\ last.pre.user.password_hint = None

\* What the caller can see of the answer.
Visible == [err |-> last.err, shown |-> last.shown]

\* C25: with mail enabled and hints allowed, the lookup of an address
\* that is no user's and the lookup of a user's who has no hint both
\* answer Ok with no content, in every run.
C25_SameAnswerWithMail ==
    (Hinted /\ last.config.mail_enabled /\ last.config.password_hints_allowed
        /\ (Nonexistent \/ ExistsWithoutHint))
        => Visible = [err |-> Ok, shown |-> None]

LookupRefused ==
    \/ ~last.config.password_hints_allowed
    \/ (~last.config.mail_enabled /\ ~last.config.show_password_hint)

\* Hints are revealed in error texts: no mail, the opt-in, hints allowed.
HintsInErrors ==
    /\ last.config.password_hints_allowed
    /\ ~last.config.mail_enabled
    /\ last.config.show_password_hint

\* C27: the lookup is refused without any user lookup exactly when hints
\* are disallowed or mail is disabled without the show-hint opt-in; a
\* hint is part of the answer only when mail is disabled, the opt-in is
\* set and the address is a user's who has that hint; and then an address
\* that is no user's and a user's without a hint get the same error.
C27_HintRefusedOrOptedIn ==
    Hinted =>
        /\ LookupRefused <=> last.err = ErrNotConfigured
        /\ LookupRefused => (last.lookups = 0 /\ last.mails = <<>>)
        /\ IsSome(last.shown) =>
              /\ HintsInErrors
              /\ last.data.email = last.pre.user.email
              /\ last.shown = last.pre.user.password_hint
        /\ last.err = ErrHintShown <=> IsSome(last.shown)
        /\ (HintsInErrors /\ (Nonexistent \/ ExistsWithoutHint)) => last.err = NO_HINT

\* The hint of a user shown in the error text.
C27_Witness ==
    /\ Hinted
    /\ HintsInErrors
    /\ last.err = ErrHintShown
    /\ last.shown = Some(<<"h">>)

---------------------------------------------------------------------------
(* Rotation: notifications and stale routes                                *)

\* C28: a rotation sends no realtime notification of a send or cipher
\* update, whatever it writes; the one notification it sends is the
\* logout, once, when it comes to save the user.
C28_RotationNotifiesLogoutOnly ==
    Rotated =>
        /\ \A i \in DOMAIN last.notes : last.notes[i].type = "logout"
        /\ Len(last.notes) <= 1
        /\ last.err = Ok => Len(last.notes) = 1

\* A successful rotation that has rewritten a send and a cipher.
C28_Witness ==
    /\ Rotated
    /\ last.err = Ok
    /\ Written("sends") # {}
    /\ Written("ciphers") # {}
    /\ Len(last.notes) = 1

\* C29: a successful rotation records, as ChangePassword does, the routes
\* post_rotatekey, get_contacts, get_public_keys and get_api_webauthn with
\* the new security stamp.
C29_RotationRecordsRoutes ==
    (Rotated /\ last.err = Ok) =>
        /\ user.security_stamp # last.pre.user.security_stamp
        /\ user.stamp_exception = Some(PasswordRoutes)

---------------------------------------------------------------------------
(* ChangePassword: refusals                                                *)

ChangedPassword == last.op = "post_password"

\* The payload's current password is not the stored user's.
WrongCurrentPassword ==
    last.pre.user.password_hash # hash_password(last.data.master_password_hash)

\* The payload carries a hint (one that is not blank) although hints are
\* disabled.
HintWhileDisabled ==
    /\ IsSome(clean_password_hint(last.data.master_password_hint))
    /\ ~last.config.password_hints_allowed

\* C30: a ChangePassword with a wrong current password, or with a hint
\* while hints are disabled, fails and has written nothing: the stored
\* user (password hash, encrypted key, hint and security stamp among the
\* rest) is as before, no event is logged and no logout is sent.
C30_RefusedPasswordChangesNothing ==
    (ChangedPassword /\ (WrongCurrentPassword \/ HintWhileDisabled)) =>
        /\ last.err \in {ErrInvalidPassword, ErrHintsDisabled}
        /\ user = last.pre.user
        /\ last.writes = <<>>
        /\ last.events = <<>>
        /\ last.notes = <<>>

\* The right password with a hint that differs from the stored one, while
\* hints are disabled.
C30_Witness ==
    /\ ChangedPassword
    /\ ~WrongCurrentPassword
    /\ last.err = ErrHintsDisabled
    /\ last.data.master_password_hint = Some(<<" ", "h">>)
    /\ last.pre.user.password_hint = None
    /\ user.password_hint = None

---------------------------------------------------------------------------
(* C36: rotation entries without an identifier.                            *)

\* C36: every rotation that passed validation ends in an explicit outcome,
\* Ok or a returned error: no entry, an entry without an id included, makes
\* the handler abort (panic), in particular not after folders,
\* emergency-access grants or reset-password keys have been written.
C36_NoAbortAfterWrites ==
    (Rotated /\ last.err \notin PreconditionErrors) => last.err # Panic

---------------------------------------------------------------------------
(* C32, C33: the order of an approval's effects, and the handshake from    *)
(* the requesting device's side.                                           *)

\* The Respond just answered got as far as its approve or deny branch.
RespondBranch(approved) ==
    /\ last.op = "put_auth_request"
    /\ last.data.request_approved = approved
    /\ last.steps # <<>>

StepNames == [i \in DOMAIN last.steps |-> last.steps[i].step]

\* C32: an approval stores the approved record (approved = Some(true),
\* enc_key, responding device, response date) before the anonymous
\* notification and the realtime event are sent, and sends neither when the
\* save fails; a denial sends no notification; each logs exactly one
\* security event, of its own kind, after the store write.
C32_ApprovalStoredThenAnnounced ==
    /\ RespondBranch(TRUE) =>
         /\ last.err = Ok =>
              /\ StepNames = <<"auth_request.save", "anonymous_auth_response",
                               "auth_response", "OrganizationUserApprovedAuthRequest">>
              /\ IsSome(auth_requests[last.id])
              /\ Unwrap(auth_requests[last.id]).approved = Some(TRUE)
              /\ Unwrap(auth_requests[last.id]).enc_key = Some(last.data.key)
              /\ Unwrap(auth_requests[last.id]).response_device_id =
                     Some(last.headers.device.uuid)
              /\ Unwrap(auth_requests[last.id]).response_date = Some(now)
              /\ Len(last.events) = 1
         /\ last.err # Ok =>
              /\ StepNames = <<"auth_request.save">>
              /\ last.notes = <<>> /\ last.events = <<>>
              /\ auth_requests = last.pre
    /\ RespondBranch(FALSE) =>
         /\ last.notes = <<>>
         /\ last.err = Ok =>
              /\ StepNames = <<"auth_request.delete",
                               "OrganizationUserRejectedAuthRequest">>
              /\ Len(last.events) = 1
         /\ last.err # Ok => last.events = <<>>

\* An approval with a master password hash was stored and announced.
C32_Witness ==
    /\ RespondBranch(TRUE)
    /\ last.err = Ok
    /\ IsSome(last.data.master_password_hash)
    /\ Len(last.notes) = 2

\* The poll just answered comes from the device type and address that
\* created the request, with its access code.
SameRequester(created) ==
    /\ created.device_type = last.headers.device_type
    /\ created.request_ip = last.headers.ip
    /\ created.access_code = last.code

\* C33: a GetAuthRequestByCode from the device type and address that created
\* the request, with its access code, returns approved = none and key = none
\* while the request is pending, approved = true with the enc_key and
\* master_password_hash of the approver's response once an approval was
\* committed, and the not-found error once the request was denied.
C33_Handshake ==
    last.op = "get_auth_request_response" =>
        /\ (IsSome(last.pre[last.id]) /\ responded[last.id] = None
                /\ SameRequester(Unwrap(last.pre[last.id]))) =>
              /\ last.err = Ok
              /\ Unwrap(last.body).requestApproved = None
              /\ Unwrap(last.body).key = None
        /\ (IsSome(responded[last.id]) /\ Unwrap(responded[last.id]).approved) =>
              /\ IsSome(last.pre[last.id])
              /\ SameRequester(Unwrap(last.pre[last.id])) =>
                    /\ last.err = Ok
                    /\ Unwrap(last.body).requestApproved = Some(TRUE)
                    /\ Unwrap(last.body).key =
                           Some(Unwrap(responded[last.id]).data.key)
                    /\ Unwrap(last.body).masterPasswordHash =
                           Unwrap(responded[last.id]).data.master_password_hash
        /\ (IsSome(responded[last.id]) /\ ~Unwrap(responded[last.id]).approved) =>
              /\ last.err = ErrAuthRequestNotExist
              /\ last.body = None

\* The requester polls an approved request and receives the approver's key
\* and master password hash.
C33_Witness ==
    /\ last.op = "get_auth_request_response"
    /\ IsSome(responded[last.id])
    /\ Unwrap(responded[last.id]).approved
    /\ last.err = Ok
    /\ Unwrap(last.body).masterPasswordHash = Some("mh1")

---------------------------------------------------------------------------
(* Registration with invitations, followed by password changes             *)

\* The payloads: the address of the account in two spellings or an address
\* of no user, any hint, a name of 50 or 51 characters, with or without an
\* invite token; the KDF fields as the client leaves them by default.
SignupData ==
    [email : {"a@x", "A@x", "c@x"},
     kdf : {None}, kdf_iterations : {None}, kdf_memory : {None},
     kdf_parallelism : {None},
     key : {B1},
     keys : {Some([encrypted_private_key |-> B1, public_key |-> "pk1"])},
     master_password_hash : {"mh0"},
     master_password_hint : Option(HintStrings),
     name : Option({50, 51}),
     org_invite_token : Option(InviteTokens)]

\* A registered account or an invited user who has not registered yet,
\* with or without a pending invitation for the account's address and for
\* the address of no user, and with or without an invited membership.
InitSignup ==
    /\ \/ user = RegisteredUser([client_kdf_type |-> Pbkdf2, client_kdf_iter |-> 600000,
                                 client_kdf_memory |-> None,
                                 client_kdf_parallelism |-> None], Some("pk1"))
       \/ user = User_new("a@x")
    /\ invitations \in SUBSET {"a@x", "c@x"}
    /\ invited_memberships \in SUBSET OrganizationIds
    /\ memberships = [i \in OrganizationIds |->
                          IF i \in invited_memberships
                              THEN Some([reset_password_key |-> None]) ELSE None]
    /\ folders = [i \in FolderIds |-> None]
    /\ emergency_access = [i \in EmergencyAccessIds |-> None]
    /\ sends = [i \in SendIds |-> None]
    /\ ciphers = [i \in CipherIds |-> None]
    /\ devices = Devices
    /\ NoAuthRequests
    /\ last = Idle

Signup ==
    /\ last = Idle
    /\ user.security_stamp < MaxStamp
    /\ \E data \in SignupData, config \in RegisterConfig, emergency_invited \in BOOLEAN :
         RegisterRequest(data, config, emergency_invited)

NextSignup ==
    \/ Signup
    \/ Registered /\ ChangePassword
    \/ Return

SpecSignup == InitSignup /\ [][NextSignup]_vars

---------------------------------------------------------------------------
(* C31: stored password hints are clean.                                   *)

\* Absent, or a non-empty string with no whitespace at either end.
CleanHint(hint) ==
    \/ hint = None
    \/ /\ Unwrap(hint) # <<>>
       /\ Head(Unwrap(hint)) \notin Whitespace
       /\ Unwrap(hint)[Len(Unwrap(hint))] \notin Whitespace

Blank(s) == \A i \in DOMAIN s : s[i] \in Whitespace

\* C31: after any registrations and password changes the stored hint is
\* absent or a non-empty string with no leading or trailing whitespace; a
\* successful request stores the cleaned hint of its payload, which is
\* absent for an empty or whitespace-only hint; and cleaning a cleaned hint
\* returns it unchanged.
C31_StoredHintsClean ==
    /\ CleanHint(user.password_hint)
    /\ last.op \in {"register", "post_password"} =>
         LET hint == last.data.master_password_hint
             cleaned == clean_password_hint(hint)
         IN  /\ last.err = Ok => user.password_hint = cleaned
             /\ (IsSome(hint) /\ Blank(Unwrap(hint))) => cleaned = None
             /\ CleanHint(cleaned)
             /\ clean_password_hint(cleaned) = cleaned

\* A registration stored a hint that came with whitespace at both ends.
C31_Witness ==
    /\ last.op = "register"
    /\ last.err = Ok
    /\ last.data.master_password_hint = Some(<<" ", "h", " ">>)
    /\ user.password_hint = Some(<<"h">>)

---------------------------------------------------------------------------
(* C34, C35: what a refused registration leaves behind.                    *)

RegistrationLeftNothing ==
    /\ user = last.pre.user
    /\ invitations = last.pre.invitations
    /\ invited_memberships = last.pre.invited_memberships
    /\ memberships = last.pre.memberships
    /\ last.writes = <<>>

NameTooLong == IsSome(last.data.name) /\ Unwrap(last.data.name) > 50

HintAgainstPolicy ==
    /\ IsSome(clean_password_hint(last.data.master_password_hint))
    /\ ~last.config.password_hints_allowed

\* C34: a registration with a name of more than 50 characters, or with a
\* hint while hints are disabled, fails with the error of that check and
\* has consumed nothing: the pending invitation of the address is still
\* there and no membership status and no user record was changed.
C34_ChecksBeforeInvitation ==
    last.op = "register" =>
        /\ NameTooLong => last.err = ErrNameTooLong
        /\ (~NameTooLong /\ HintAgainstPolicy) => last.err = ErrHintsDisabled
        /\ last.err \in {ErrNameTooLong, ErrHintsDisabled} =>
              /\ NameTooLong \/ HintAgainstPolicy
              /\ RegistrationLeftNothing

\* An invited user with an invited membership sent a name of 51 characters
\* and still holds the invitation.
C34_Witness ==
    /\ last.op = "register"
    /\ last.err = ErrNameTooLong
    /\ last.pre.user.password_hash = <<>>
    /\ to_lowercase(last.data.email) \in invitations
    /\ invited_memberships # {}

\* The registration just answered named the address of a user who has a
\* password.
ForPasswordedUser ==
    /\ last.op = "register"
    /\ to_lowercase(last.data.email) = last.pre.user.email
    /\ last.pre.user.password_hash # <<>>

\* The error the same payload gets for an address of no user when signups
\* are closed and nobody is invited.
ErrorForNobody ==
    register([last.data EXCEPT !.email = "c@x"],
             [last.config EXCEPT !.signup_allowed = FALSE],
             last.emergency_invited,
             [last.pre EXCEPT !.invitations = {}], now, 0).err

\* C35, as stated: a registration for an address whose user has a password
\* always fails with "Registration not allowed or user already exists" and
\* changes neither the user nor the invitations.
C35_AlwaysRegistrationError ==
    ForPasswordedUser => (last.err = ErrRegistration /\ RegistrationLeftNothing)

\* C35, amended: a registration for an address whose user has a password
\* always fails and changes neither the user nor the invitations; its error
\* is the one the same request gets for an address of no user when signups
\* are closed and nobody is invited, which is "Registration not allowed or
\* user already exists" unless the name or the hint was refused first.
C35_PasswordedUserUntouched ==
    ForPasswordedUser =>
        /\ last.err # Ok
        /\ RegistrationLeftNothing
        /\ last.err = ErrorForNobody
        /\ (~NameTooLong /\ ~HintAgainstPolicy) => last.err = ErrRegistration

\* A registration for a user with a password, with a pending invitation for
\* the address and signups open, was refused.
C35_Witness ==
    /\ ForPasswordedUser
    /\ last.err = ErrRegistration
    /\ last.pre.user.email \in last.pre.invitations
    /\ last.config.signup_allowed

---------------------------------------------------------------------------
(* Two sessions of the user, each with a request in flight                 *)

\* The Headers guard loads the user before the handler runs (headers.user);
\* the handler works on that record and saves it as a whole, whatever the
\* store holds by then.  Session s1 is on device d1 and s2 on d2.
SessionDevice(p) == IF p = "s1" THEN "d1" ELSE "d2"

\* ChangeKdf payloads that pass the floors and ceilings.
SessionKdfData ==
    {data \in ChangeKdfData :
        /\ data.kdf \in {Pbkdf2, Argon2id}
        /\ data.kdf_iterations = 100000
        /\ data.kdf_memory \in {None, Some(15)}
        /\ data.kdf_parallelism \in {None, Some(1)}}

\* The request of session p is authenticated: it holds the stored user.
Authenticate(p) ==
    /\ last = Idle
    /\ sessions[p] = None
    /\ user.security_stamp < MaxStamp
    /\ sessions' = [sessions EXCEPT ![p] = Some(user)]
    /\ UNCHANGED <<account_vars, auth_vars, responders, last>>

\* post_kdf of session p, on the user it loaded and the store as it is now.
SessionChangeKdf(p) ==
    /\ last = Idle
    /\ IsSome(sessions[p])
    /\ \E data \in SessionKdfData :
         LET headers == [user |-> Unwrap(sessions[p]), device |-> SessionDevice(p)]
             attempted == post_kdf(data, headers, Db, 0).n
         IN  \E failAt \in 0..attempted :
             \E r \in {post_kdf(data, headers, Db, failAt)} :
                 /\ user' = r.user
                 /\ last' = [op |-> "post_kdf", data |-> data, headers |-> headers,
                             failAt |-> failAt, pre |-> Db,
                             err |-> r.err, writes |-> r.writes, notes |-> r.notes,
                             steps |-> r.steps]
    /\ sessions' = [sessions EXCEPT ![p] = None]
    /\ UNCHANGED <<folders, emergency_access, memberships, sends, ciphers, devices,
                   invitations, invited_memberships, auth_vars, responders>>

\* post_rotatekey of session p, on the user it loaded and the store as it
\* is now; the account owns nothing, so the lists are empty.
SessionRotate(p) ==
    /\ last = Idle
    /\ IsSome(sessions[p])
    /\ \E old \in MasterHashes, mp \in MasterPasswordUnlockData, pk \in PublicKeys :
         LET data == KeyData(old, mp, pk, <<>>, <<>>, <<>>, <<>>, <<>>)
             headers == [user |-> Unwrap(sessions[p]), device |-> SessionDevice(p)]
             attempted == post_rotatekey(data, headers, Db, 0).n
         IN  \E failAt \in 0..attempted :
             \E r \in {post_rotatekey(data, headers, Db, failAt)} :
                 /\ user' = r.user
                 /\ last' = [op |-> "post_rotatekey", data |-> data, headers |-> headers,
                             failAt |-> failAt, pre |-> Db,
                             err |-> r.err, writes |-> r.writes, notes |-> r.notes,
                             steps |-> r.steps]
    /\ sessions' = [sessions EXCEPT ![p] = None]
    /\ UNCHANGED <<folders, emergency_access, memberships, sends, ciphers, devices,
                   invitations, invited_memberships, auth_vars, responders>>

NextSessions ==
    \/ \E p \in SessionIds : Authenticate(p)
    \/ \E p \in SessionIds : SessionChangeKdf(p)
    \/ \E p \in SessionIds : SessionRotate(p)
    \/ Return

SpecSessions == InitKdf /\ [][NextSessions]_vars

---------------------------------------------------------------------------
(* C37: ChangeKdf and RotateAccountKeys in flight together.                *)

KdfOf(u) ==
    [client_kdf_type |-> u.client_kdf_type, client_kdf_iter |-> u.client_kdf_iter,
     client_kdf_memory |-> u.client_kdf_memory,
     client_kdf_parallelism |-> u.client_kdf_parallelism]

\* C37: whatever the interleaving of a ChangeKdf and a RotateAccountKeys of
\* two sessions, a successful rotation leaves the KDF parameters the store
\* held when it wrote: it never writes back parameters older than those a
\* ChangeKdf committed in between, so the stored parameters and the stored
\* password hash and encrypted user key come from the same operation.
C37_RotationKeepsCommittedKdf ==
    (last.op = "post_rotatekey" /\ last.err = Ok) => KdfOf(user) = KdfOf(last.pre.user)

---------------------------------------------------------------------------
(* post_email_token, post_email                                            *)

ErrEmailChangeNotAllowed == "Email change is not allowed."
ErrEmailInUse == "Email already in use"
ErrEmailDomain == "Email domain not allowed"
ErrEmailMismatch == "Email change mismatch"
ErrNoEmailChange == "No email change pending"
ErrTokenMismatch == "Token mismatch"

\* The addresses of the other accounts of the server.
OtherEmails == {"b@x"}

\* User::find_by_mail(..).is_some() over all the accounts.
email_in_use(db, email) == IsSome(find_user_by_mail(db, email)) \/ email \in OtherEmails

\* The decimal digits of a number, as a string.
Digit(d) == <<"0", "1", "2", "3", "4", "5", "6", "7", "8", "9">>[d + 1]

RECURSIVE to_string(_)
to_string(n) == IF n < 10 THEN <<Digit(n)>> ELSE to_string(n \div 10) \o <<Digit(n % 10)>>

\* NumberOrString::into_string: a number is written in decimal, a string is
\* taken as it is.
into_string(token) ==
    IF token.kind = "Number" THEN to_string(token.number) ELSE token.string

\* mail::send_*: the mail is recorded; a failure is only logged.
send_mail(st, kind, to, token) ==
    [st EXCEPT !.notes = Append(@, [type |-> kind, id |-> to, ut |-> token])]

\* post_email_token.  token is what crypto::generate_email_token(6)
\* returns, domain_allowed what CONFIG.is_email_domain_allowed says of the
\* new address.
post_email_token(data, headers, config, db, token, failAt) ==
    LET st == start(db, failAt) IN
    IF ~config.email_change_allowed THEN [st EXCEPT !.err = ErrEmailChangeNotAllowed]
    ELSE IF ~check_valid_password(headers.user, data.master_password_hash)
        THEN [st EXCEPT !.err = ErrInvalidPassword]
    ELSE IF email_in_use(db, data.new_email) THEN
        [(IF config.mail_enabled
              THEN send_mail(st, "send_change_email_existing", data.new_email, None)
              ELSE st)
            EXCEPT !.err = ErrEmailInUse]
    ELSE IF ~config.domain_allowed THEN [st EXCEPT !.err = ErrEmailDomain]
    ELSE
    LET s1 == IF config.mail_enabled
                  THEN send_mail(st, "send_change_email", data.new_email, Some(token))
                  ELSE st
        u == [headers.user EXCEPT !.email_new = Some(data.new_email),
                                  !.email_new_token = Some(token)]
    IN  save_user(s1, u)

\* Lines 916-926: the address is replaced, the pending change cleared, the
\* password set with a new security stamp, the record saved and every
\* device logged out; the result is the save's.
save_email(st, u, data) ==
    LET u1 == [u EXCEPT !.email = data.new_email,
                        !.email_new = None,
                        !.email_new_token = None]
        u2 == set_password(u1, data.new_master_password_hash, Some(data.key), TRUE, None)
    IN  send_logout(save_user(st, u2), u2, None)

\* Variant: the token is never compared.
post_email_without_token(data, headers, config, db, t, failAt) ==
    LET st == start(db, failAt) IN
    IF ~config.email_change_allowed THEN [st EXCEPT !.err = ErrEmailChangeNotAllowed]
    ELSE IF ~check_valid_password(headers.user, data.master_password_hash)
        THEN [st EXCEPT !.err = ErrInvalidPassword]
    ELSE IF email_in_use(db, data.new_email) THEN [st EXCEPT !.err = ErrEmailInUse]
    ELSE IF headers.user.email_new = None THEN [st EXCEPT !.err = ErrNoEmailChange]
    ELSE IF Unwrap(headers.user.email_new) # data.new_email
        THEN [st EXCEPT !.err = ErrEmailMismatch]
    ELSE save_email(st, [headers.user EXCEPT !.verified_at =
                            IF config.mail_enabled THEN Some(t) ELSE None], data)

\* post_email; t is Utc::now().
post_email(data, headers, config, db, t, failAt) ==
    LET st == start(db, failAt) IN
    IF ~config.email_change_allowed THEN [st EXCEPT !.err = ErrEmailChangeNotAllowed]
    ELSE IF ~check_valid_password(headers.user, data.master_password_hash)
        THEN [st EXCEPT !.err = ErrInvalidPassword]
    ELSE IF email_in_use(db, data.new_email) THEN [st EXCEPT !.err = ErrEmailInUse]
    ELSE IF headers.user.email_new = None THEN [st EXCEPT !.err = ErrNoEmailChange]
    ELSE IF Unwrap(headers.user.email_new) # data.new_email
        THEN [st EXCEPT !.err = ErrEmailMismatch]
    ELSE IF config.mail_enabled /\ headers.user.email_new_token = None
        THEN [st EXCEPT !.err = ErrNoEmailChange]
    ELSE IF config.mail_enabled
            /\ Unwrap(headers.user.email_new_token) # into_string(data.token)
        THEN [st EXCEPT !.err = ErrTokenMismatch]
    ELSE save_email(st, [headers.user EXCEPT !.verified_at =
                            IF config.mail_enabled THEN Some(t) ELSE None], data)

---------------------------------------------------------------------------
(* Email change as a state machine                                         *)

\* The account's address, the address of another account and two free ones.
NewEmails == {"a@x", "b@x", "n@x", "m@x"}

\* What generate_email_token returns: digits, with or without a leading 0.
EmailTokens == {<<"0", "7">>, <<"4", "2">>}

\* The token as the client sends it: a JSON number or a JSON string.
NumberOrString ==
    [kind : {"Number"}, number : {7, 42}, string : {<<>>}]
        \cup [kind : {"String"}, number : {0}, string : EmailTokens]

EmailConfig ==
    [email_change_allowed : BOOLEAN, mail_enabled : BOOLEAN, domain_allowed : BOOLEAN]

EmailTokenData == [master_password_hash : MasterHashes, new_email : NewEmails]

ChangeEmailData ==
    [master_password_hash : MasterHashes, new_email : NewEmails,
     key : {B1}, new_master_password_hash : MasterHashes, token : NumberOrString]

RequestEmailToken ==
    /\ last = Idle
    /\ \E data \in EmailTokenData, device \in devices, config \in EmailConfig,
          token \in EmailTokens :
         LET headers == [user |-> user, device |-> device]
             attempted == post_email_token(data, headers, config, Db, token, 0).n
         IN  \E failAt \in 0..attempted :
             \E r \in {post_email_token(data, headers, config, Db, token, failAt)} :
                 /\ user' = r.user
                 /\ last' = [op |-> "post_email_token", data |-> data,
                             headers |-> headers, config |-> config,
                             failAt |-> failAt, pre |-> Db,
                             err |-> r.err, writes |-> r.writes, notes |-> r.notes,
                             steps |-> r.steps]
    /\ UNCHANGED <<folders, emergency_access, memberships, sends, ciphers, devices,
                   invitations, invited_memberships, auth_vars, race_vars>>

ChangeEmail ==
    /\ last = Idle
    /\ user.security_stamp < MaxStamp
    /\ \E data \in ChangeEmailData, device \in devices, config \in EmailConfig :
         LET headers == [user |-> user, device |-> device]
             attempted == post_email(data, headers, config, Db, now, 0).n
         IN  \E failAt \in 0..attempted :
             \E r \in {post_email(data, headers, config, Db, now, failAt)} :
                 /\ user' = r.user
                 /\ last' = [op |-> "post_email", data |-> data,
                             headers |-> headers, config |-> config,
                             failAt |-> failAt, pre |-> Db,
                             err |-> r.err, writes |-> r.writes, notes |-> r.notes,
                             steps |-> r.steps]
    /\ UNCHANGED <<folders, emergency_access, memberships, sends, ciphers, devices,
                   invitations, invited_memberships, auth_vars, race_vars>>

NextEmail ==
    \/ RequestEmailToken
    \/ ChangeEmail
    \/ Return

SpecEmail == InitKdf /\ [][NextEmail]_vars

---------------------------------------------------------------------------
(* C38: the two steps of an email change.                                  *)

EmailRequest == last.op \in {"post_email_token", "post_email"}

\* The same post_email, sent again by a session of the user as now stored.
RepeatedChange ==
    post_email(last.data, [last.headers EXCEPT !.user = user], last.config, Db, now, 0)

\* C38: a pending email_new is only ever left by post_email_token; post_email
\* changes the stored email only to the pending email_new, with the current
\* password, when no account uses the address and, with mail enabled, the
\* supplied token equals the stored one; when it succeeds it has cleared
\* email_new and email_new_token, stored a new security stamp and sent one
\* logout to every device, and the same post_email sent again fails.
C38_EmailChangeTwoSteps ==
    EmailRequest =>
        /\ (IsSome(user.email_new) /\ user.email_new # last.pre.user.email_new) =>
              /\ last.op = "post_email_token"
              /\ user.email_new = Some(last.data.new_email)
        /\ user.email # last.pre.user.email =>
              /\ last.op = "post_email"
              /\ user.email = last.data.new_email
              /\ last.pre.user.email_new = Some(last.data.new_email)
              /\ check_valid_password(last.pre.user, last.data.master_password_hash)
              /\ ~email_in_use(last.pre, last.data.new_email)
              /\ last.config.mail_enabled =>
                    last.pre.user.email_new_token = Some(into_string(last.data.token))
        /\ (last.op = "post_email" /\ last.err = Ok) =>
              /\ user.email = last.data.new_email
              /\ user.email_new = None
              /\ user.email_new_token = None
              /\ user.security_stamp # last.pre.user.security_stamp
              /\ Len(Logouts) = 1
              /\ Logouts[1].to = devices
              /\ RepeatedChange.err # Ok
              /\ RepeatedChange.user = user

\* With mail enabled the address was changed by a request that sent the
\* token as a number.
C38_Witness ==
    /\ last.op = "post_email"
    /\ last.err = Ok
    /\ last.config.mail_enabled
    /\ last.data.token.kind = "Number"
    /\ user.email = "n@x"
    /\ last.pre.user.email = "a@x"

====
